---- MODULE Spec2Model ----
(***************************************************************************)
(* Workflow execution engine of Agent_builder                              *)
(* (backend/app/services/workflow_execution_service.py) together with the  *)
(* chat route that calls it (backend/app/api/routes/chat.py) and the       *)
(* retrieval / generation services its handlers delegate to.               *)
(*                                                                         *)
(* Text is modelled as a sequence of tokens: a Python string is the        *)
(* concatenation of its tokens, "" is << >>, s1 + s2 is s1 \o s2 and the   *)
(* truth value of a string is Len(s) > 0.  Node ids are numbers standing   *)
(* for the id strings of the graph.  Wall-clock readings (time.time())     *)
(* are not read by any branch of the code and are left out of the records. *)
(***************************************************************************)
EXTENDS Integers, Sequences, FiniteSets, TLC

\* ------------------------------------------------------------------ bounds
MaxNodes == 3
MaxEdges == 1
MaxChain == 3
MaxOrderEdges == 3
MaxChatNodes == 2
MaxPairNodes == 1

\* ------------------------------------------------------- generic helpers
Range(s) == {s[i] : i \in 1..Len(s)}

SeqsUpTo(S, n) == UNION {[1..k -> S] : k \in 0..n}

\* dict.get(key, default)
Get(d, key, default) == IF key \in DOMAIN d THEN d[key] ELSE default

\* a merge in which the first write of a key wins
UpdateKeepFirst(d, other) ==
    [k \in (DOMAIN d) \cup (DOMAIN other) |->
        IF k \in DOMAIN d THEN d[k] ELSE other[k]]

\* a merge that replaces the dict by the other one
UpdateReplace(d, other) == other

\* dict.update(other): keys of other overwrite, all other keys are kept
Update(d, other) ==
    [k \in (DOMAIN d) \cup (DOMAIN other) |->
        IF k \in DOMAIN other THEN other[k] ELSE d[k]]

EmptyDict == [k \in {} |-> 0]

\* position of the first occurrence of x in s, 0 when absent
RECURSIVE IndexFrom(_, _, _)
IndexFrom(s, x, i) ==
    IF i > Len(s) THEN 0
    ELSE IF s[i] = x THEN i
    ELSE IndexFrom(s, x, i + 1)

IndexOf(s, x) == IndexFrom(s, x, 1)

\* ------------------------------------------------------------ the graph
KnownTypes == {"user-query", "knowledge-base", "llm-engine", "output"}

\* "custom" stands for every type string outside the four known ones
NodeTypes == KnownTypes \cup {"custom"}

\* keys of the dicts built by {node['id']: ... for node in nodes}: the ids in
\* the order of their first occurrence in the node list
RECURSIVE DictKeys(_, _)
DictKeys(nodes, i) ==
    IF i > Len(nodes) THEN << >>
    ELSE LET rest == DictKeys(nodes, i + 1)
             id == nodes[i].id
         IN  <<id>> \o SelectSeq(rest, LAMBDA x : x # id)

NodeIds(nodes) == {nodes[i].id : i \in 1..Len(nodes)}

\* BuildGraph with every edge taken backwards
RECURSIVE BuildGraphReversed(_, _, _, _, _)
BuildGraphReversed(edges, i, ids, graph, in_degree) ==
    IF i > Len(edges) THEN [ok |-> TRUE, graph |-> graph, in_degree |-> in_degree]
    ELSE LET source == edges[i].source
             target == edges[i].target
         IN  IF source \notin ids \/ target \notin ids
             THEN [ok |-> FALSE, graph |-> graph, in_degree |-> in_degree]
             ELSE BuildGraphReversed(edges, i + 1, ids,
                                     [graph EXCEPT ![target] = Append(@, source)],
                                     [in_degree EXCEPT ![source] = @ + 1])

\* the "Build graph" loop: graph[source].append(target); in_degree[target] += 1
\* A source or target that is no key of the dicts raises KeyError.
RECURSIVE BuildGraph(_, _, _, _, _)
BuildGraph(edges, i, ids, graph, in_degree) ==
    IF i > Len(edges) THEN [ok |-> TRUE, graph |-> graph, in_degree |-> in_degree]
    ELSE LET source == edges[i].source
             target == edges[i].target
         IN  IF source \notin ids \/ target \notin ids
             THEN [ok |-> FALSE, graph |-> graph, in_degree |-> in_degree]
             ELSE BuildGraph(edges, i + 1, ids,
                             [graph EXCEPT ![source] = Append(@, target)],
                             [in_degree EXCEPT ![target] = @ + 1])

\* an inner loop that queues a neighbor while one of its dependencies is
\* still open
RECURSIVE VisitNeighborsEarly(_, _, _, _)
VisitNeighborsEarly(neighbors, i, in_degree, queue) ==
    IF i > Len(neighbors) THEN [in_degree |-> in_degree, queue |-> queue]
    ELSE LET neighbor == neighbors[i]
             deg == in_degree[neighbor] - 1
         IN  VisitNeighborsEarly(neighbors, i + 1,
                                 [in_degree EXCEPT ![neighbor] = deg],
                                 IF deg = 1 THEN Append(queue, neighbor) ELSE queue)

\* the inner for loop over graph[current]
RECURSIVE VisitNeighbors(_, _, _, _)
VisitNeighbors(neighbors, i, in_degree, queue) ==
    IF i > Len(neighbors) THEN [in_degree |-> in_degree, queue |-> queue]
    ELSE LET neighbor == neighbors[i]
             deg == in_degree[neighbor] - 1
         IN  VisitNeighbors(neighbors, i + 1,
                            [in_degree EXCEPT ![neighbor] = deg],
                            IF deg = 0 THEN Append(queue, neighbor) ELSE queue)

\* the while queue loop
RECURSIVE Kahn(_, _, _, _)
Kahn(queue, graph, in_degree, execution_order) ==
    IF queue = << >> THEN execution_order
    ELSE LET current == Head(queue)
             v == VisitNeighbors(graph[current], 1, in_degree, Tail(queue))
         IN  Kahn(v.queue, graph, v.in_degree, Append(execution_order, current))

\* an order built from a queue that starts with every node, also those
\* that wait for a dependency
BuildExecutionOrderAllQueued(nodes, edges) ==
    LET keys == DictKeys(nodes, 1)
        ids == NodeIds(nodes)
        b == BuildGraph(edges, 1, ids, [id \in ids |-> << >>], [id \in ids |-> 0])
    IN  IF ~b.ok THEN [ok |-> FALSE, order |-> << >>]
        ELSE [ok |-> TRUE, order |-> Kahn(keys, b.graph, b.in_degree, << >>)]

\* _build_execution_order(nodes, edges): [ok, order]; ok = FALSE is KeyError
BuildExecutionOrder(nodes, edges) ==
    LET keys == DictKeys(nodes, 1)
        ids == NodeIds(nodes)
        b == BuildGraph(edges, 1, ids, [id \in ids |-> << >>], [id \in ids |-> 0])
    IN  IF ~b.ok THEN [ok |-> FALSE, order |-> << >>]
        ELSE [ok |-> TRUE,
              order |-> Kahn(SelectSeq(keys, LAMBDA id : b.in_degree[id] = 0),
                             b.graph, b.in_degree, << >>)]

\* ------------------------------------------------------------------ text
\* truth value of a Python string / list / None (None is modelled as << >>)
Truthy(v) == Len(v) > 0

None == << >>

\* sep.join(parts) for a sequence of token sequences
RECURSIVE Join(_, _)
Join(sep, parts) ==
    IF Len(parts) = 0 THEN << >>
    ELSE IF Len(parts) = 1 THEN parts[1]
    ELSE parts[1] \o sep \o Join(sep, Tail(parts))

\* f"{similarity:.2f}" for a similarity kept in hundredths
Format2f(similarity) ==
    <<ToString(similarity \div 100), ".",
      ToString((similarity % 100) \div 10), ToString(similarity % 10)>>

\* ---------------------------------------------------- user-query handler
\* a handler that hands the query on as user_query only
ExecuteUserQueryResultNoOutput(context) ==
    [user_query |-> Get(context, "query", << >>)]

\* _execute_user_query(component_data, context)
ExecuteUserQueryResult(context) ==
    [user_query |-> Get(context, "query", << >>),
     component_output |-> Get(context, "query", << >>)]

\* -------------------------------------------------------------- retrieval
DefaultSearchLimit == 5
\* similarities and distances are kept in hundredths: 0.7 is 70
DefaultSimilarityThreshold == 70

\* a search that leaves the results in the order of the documents
SortBySimilarityNone(results, i) == SubSeq(results, 1, i)

\* results.sort(key=similarity, reverse=True): stable, descending
RECURSIVE InsertBySimilarity(_, _)
InsertBySimilarity(sorted, x) ==
    IF Len(sorted) = 0 THEN <<x>>
    ELSE IF Head(sorted).similarity >= x.similarity
         THEN <<Head(sorted)>> \o InsertBySimilarity(Tail(sorted), x)
         ELSE <<x>> \o sorted

RECURSIVE SortBySimilarity(_, _)
SortBySimilarity(results, i) ==
    IF i = 0 THEN << >>
    ELSE InsertBySimilarity(SortBySimilarity(results, i - 1), results[i])

\* results[:limit]
Take(s, n) == SubSeq(s, 1, IF n < Len(s) THEN n ELSE Len(s))

\* a zip loop that keeps the hits above and below the threshold alike
RECURSIVE FilterHitsAll(_, _, _, _)
FilterHitsAll(hits, i, doc_id, similarity_threshold) ==
    IF i > Len(hits) THEN << >>
    ELSE <<[content |-> hits[i].doc,
            metadata |-> hits[i].metadata,
            similarity |-> 100 - hits[i].distance,
            document_id |-> doc_id,
            chunk_index |-> Get(hits[i].metadata, "chunk_index", 0),
            filename |-> Get(hits[i].metadata, "filename", "unknown")]>>
         \o FilterHitsAll(hits, i + 1, doc_id, similarity_threshold)

\* the zip loop over one document's query answer: keeps the hits at or
\* above the threshold, in the order the index returned them
RECURSIVE FilterHits(_, _, _, _)
FilterHits(hits, i, doc_id, similarity_threshold) ==
    IF i > Len(hits) THEN << >>
    ELSE LET similarity == 100 - hits[i].distance
             rest == FilterHits(hits, i + 1, doc_id, similarity_threshold)
         IN  IF similarity >= similarity_threshold
             THEN <<[content |-> hits[i].doc,
                     metadata |-> hits[i].metadata,
                     similarity |-> similarity,
                     document_id |-> doc_id,
                     chunk_index |-> Get(hits[i].metadata, "chunk_index", 0),
                     filename |-> Get(hits[i].metadata, "filename", "unknown")]>> \o rest
             ELSE rest

\* a loop that gives up at the first document whose search fails
RECURSIVE SearchLoopAbort(_, _, _, _)
SearchLoopAbort(document_ids, i, answers, similarity_threshold) ==
    IF i > Len(document_ids) THEN << >>
    ELSE LET doc_id == document_ids[i]
         IN  IF answers[doc_id].kind = "hits"
             THEN FilterHits(answers[doc_id].hits, 1, doc_id, similarity_threshold)
                  \o SearchLoopAbort(document_ids, i + 1, answers, similarity_threshold)
             ELSE << >>

\* the for doc_id in document_ids loop.  answers[doc_id] is what the index
\* did for that document: kind "missing" (get_collection raises), "error"
\* (the query raises), "timeout" (wait_for gives up after 10 s) or "hits".
RECURSIVE SearchLoop(_, _, _, _)
SearchLoop(document_ids, i, answers, similarity_threshold) ==
    IF i > Len(document_ids) THEN << >>
    ELSE LET doc_id == document_ids[i]
             rest == SearchLoop(document_ids, i + 1, answers, similarity_threshold)
         IN  IF answers[doc_id].kind = "hits"
             THEN FilterHits(answers[doc_id].hits, 1, doc_id, similarity_threshold) \o rest
             ELSE rest

\* EmbeddingService.generate_query_embedding: TRUE when it returns a vector.
\* A query that is empty after cleaning raises before the provider is
\* called; provider_ok says whether the provider call succeeds.
GenerateQueryEmbedding(query, provider_ok) == Truthy(query) /\ provider_ok

\* DocumentService.search_documents.  chroma_client: the client exists;
\* embedding_ok: generate_query_embedding returned a vector.
SearchDocuments(chroma_client, embedding_ok, answers, document_ids, limit, similarity_threshold) ==
    IF ~chroma_client THEN << >>
    ELSE IF ~embedding_ok THEN << >>
    ELSE LET results == SearchLoop(document_ids, 1, answers, similarity_threshold)
         IN  Take(SortBySimilarity(results, Len(results)), limit)

\* history: the calls to the vector index made by the loop over the
\* documents: get_collection, then query unless the collection is missing
RECURSIVE IndexCalls(_, _, _)
IndexCalls(document_ids, i, answers) ==
    IF i > Len(document_ids) THEN << >>
    ELSE LET doc_id == document_ids[i]
         IN  <<[provider |-> "vector-index", op |-> "get_collection", doc |-> doc_id]>>
             \o (IF answers[doc_id].kind = "missing" THEN << >>
                 ELSE <<[provider |-> "vector-index", op |-> "query", doc |-> doc_id]>>)
             \o IndexCalls(document_ids, i + 1, answers)

\* history: the provider calls one search_documents call makes, in order
SearchCalls(query, chroma_client, provider_ok, answers, document_ids) ==
    IF ~chroma_client THEN << >>
    ELSE IF ~Truthy(query) THEN << >>
    ELSE <<[provider |-> "embedding", op |-> "embed_content", doc |-> 0]>>
         \o (IF provider_ok THEN IndexCalls(document_ids, 1, answers) ELSE << >>)

\* ------------------------------------------------ knowledge-base handler
SourceBlock(result) ==
    <<"Source: ", result.metadata["filename"], "\nContent: ", result.content>>

\* _execute_knowledge_base.  document_ids: the linked documents read from
\* the WorkflowDocument table.
ExecuteKnowledgeBaseResult(config, context, document_ids, chroma_client, embedding_ok, answers) ==
    IF Len(document_ids) = 0
    THEN [knowledge_base_results |-> << >>,
          context_text |-> << >>,
          component_output |-> <<"No documents linked to workflow">>]
    ELSE LET search_limit == Get(config, "search_limit", DefaultSearchLimit)
             similarity_threshold ==
                 Get(config, "similarity_threshold", DefaultSimilarityThreshold)
             search_results ==
                 SearchDocuments(chroma_client, embedding_ok, answers, document_ids,
                                 search_limit, similarity_threshold)
             \* result['metadata']['filename'] raises KeyError
             key_error == \E i \in 1..Len(search_results) :
                              "filename" \notin DOMAIN search_results[i].metadata
         IN  IF key_error
             THEN [knowledge_base_results |-> << >>,
                   context_text |-> << >>,
                   component_output |-> <<"Error searching documents: ", "'filename'">>]
             ELSE LET context_text ==
                          Join(<<"\n\n">>,
                               [i \in 1..Len(search_results) |->
                                   SourceBlock(search_results[i])])
                  IN  [knowledge_base_results |-> search_results,
                       context_text |-> context_text,
                       component_output |-> context_text]

\* ------------------------------------------------------------ generation
AvailableModels == {"gemini-pro", "gemini-1.5-pro", "gemini-1.5-flash"}

DefaultModel == "gemini-1.5-flash"

\* LLMService._construct_prompt(prompt, context)
ConstructPrompt(prompt, context) ==
    IF Truthy(context)
    THEN <<"You are a helpful AI assistant. Use the following context to answer.\n\nContext:\n">>
         \o context \o <<"\n\nQuestion: ">> \o prompt \o <<"\n">>
    ELSE <<"You are a helpful AI assistant.\n\nQuestion: ">> \o prompt

\* LLMService.generate_response_gemini.  answer is what generate_content
\* did: [ok |-> TRUE, text] or [ok |-> FALSE, error]; an empty text is the
\* "No content generated" failure.  Every failure is re-raised with a prefix.
GenerateResponseGemini(prompt, context, model, answer) ==
    LET model_name == IF model \in AvailableModels THEN model ELSE DefaultModel
        full_prompt == ConstructPrompt(prompt, context)
    IN  IF ~answer.ok
        THEN [ok |-> FALSE,
              error |-> <<"Error generating Gemini response: ", answer.error>>]
        ELSE IF ~Truthy(answer.text)
        THEN [ok |-> FALSE,
              error |-> <<"Error generating Gemini response: ", "No content generated">>]
        ELSE [ok |-> TRUE,
              response |-> answer.text,
              model |-> model_name,
              usage |-> [prompt_tokens |-> Len(full_prompt),
                         completion_tokens |-> Len(answer.text),
                         total_tokens |-> Len(full_prompt \o answer.text)],
              web_results |-> None,
              has_web_results |-> FALSE]

\* LLMService.generate_response: applies the custom prompt and falls back
\* to the default model for a model name it does not know
GenerateResponse(prompt, context, model, custom_prompt, answer) ==
    LET p == IF Truthy(custom_prompt)
             THEN custom_prompt \o <<"\n\nUser Question: ">> \o prompt
             ELSE prompt
    IN  GenerateResponseGemini(p, context, model, answer)

\* LLMService.search_web.  web: kind "nokey" (no SERPAPI_KEY), "error"
\* (the search raised) or "results"; every failure yields the empty list.
SearchWeb(web, num_results) ==
    IF web.kind = "results" THEN Take(web.results, num_results) ELSE << >>

WebBlock(i, r) ==
    <<"\n", ToString(i), ". ", r.title, "\n   Source: ", r.displayed_link,
      "\n   Content: ", r.snippet, "\n">>

RECURSIVE WebContext(_, _)
WebContext(web_results, i) ==
    IF i > Len(web_results) THEN << >>
    ELSE WebBlock(i, web_results[i]) \o WebContext(web_results, i + 1)

\* LLMService.generate_response_with_web_search.  A failure of the first
\* generation is caught and generation is tried again without the web
\* context (answer2); a failure of that second call propagates.
GenerateResponseWithWebSearch(prompt, context, model, custom_prompt, num_web_results, web, answer, answer2) ==
    LET web_results == SearchWeb(web, num_web_results)
        web_context == IF Truthy(web_results)
                       THEN <<"Current web information:\n">> \o WebContext(web_results, 1)
                       ELSE << >>
        full_context ==
            Join(<<"\n\n">>,
                 SelectSeq(<<IF Truthy(context)
                             THEN <<"Document context:\n">> \o context ELSE << >>,
                             web_context>>,
                           Truthy))
        first == GenerateResponse(prompt, full_context, model, custom_prompt, answer)
        second == GenerateResponse(prompt, context, model, custom_prompt, answer2)
    IN  IF first.ok
        THEN [first EXCEPT !.web_results = web_results, !.has_web_results = TRUE]
        ELSE IF second.ok
        THEN [second EXCEPT !.web_results = << >>, !.has_web_results = TRUE]
        ELSE second

\* -------------------------------------------------- llm-engine handler
DefaultWebSearchQueries == 3

\* _execute_llm_engine with an except branch that returns the error strings
\* only
ExecuteLLMEngineResultBare(config, context, web, answer, answer2) ==
    LET query == Get(context, "query", << >>)
        knowledge_context == Get(context, "context_text", << >>)
        model == Get(config, "model", DefaultModel)
        custom_prompt == Get(config, "custom_prompt", << >>)
        result ==
            IF Get(config, "enable_web_search", FALSE)
            THEN GenerateResponseWithWebSearch(query, knowledge_context, model,
                     custom_prompt, Get(config, "web_search_queries", DefaultWebSearchQueries),
                     web, answer, answer2)
            ELSE GenerateResponse(query, knowledge_context, model, custom_prompt, answer)
    IN  IF result.ok
        THEN [llm_response |-> result.response,
              llm_model |-> <<result.model>>,
              llm_usage |-> result.usage,
              web_results |-> IF result.has_web_results THEN result.web_results ELSE << >>,
              component_output |-> result.response]
        ELSE [llm_response |-> <<"Error generating response: ">> \o result.error,
              component_output |-> <<"Error: ">> \o result.error]

\* _execute_llm_engine
ExecuteLLMEngineResult(config, context, web, answer, answer2) ==
    LET query == Get(context, "query", << >>)
        knowledge_context == Get(context, "context_text", << >>)
        model == Get(config, "model", DefaultModel)
        custom_prompt == Get(config, "custom_prompt", << >>)
        enable_web_search == Get(config, "enable_web_search", FALSE)
        web_search_queries == Get(config, "web_search_queries", DefaultWebSearchQueries)
        result ==
            IF enable_web_search
            THEN GenerateResponseWithWebSearch(query, knowledge_context, model,
                     custom_prompt, web_search_queries, web, answer, answer2)
            ELSE GenerateResponse(query, knowledge_context, model, custom_prompt, answer)
    IN  IF result.ok
        THEN [llm_response |-> result.response,
              llm_model |-> <<result.model>>,
              llm_usage |-> result.usage,
              web_results |-> IF result.has_web_results THEN result.web_results ELSE << >>,
              component_output |-> result.response]
        ELSE [llm_response |-> <<"Error generating response: ">> \o result.error,
              llm_model |-> <<model>>,
              llm_usage |-> EmptyDict,
              web_results |-> << >>,
              component_output |-> <<"Error: ">> \o result.error]

\* ------------------------------------------------------- output handler
SourceLine(result) ==
    <<"- ", result.metadata["filename"], " (similarity: ">>
    \o Format2f(result.similarity) \o <<")">>

\* an output handler that takes the newest component_output first and
\* llm_response only when there is none
ExecuteOutputResultLatest(config, context) ==
    LET component_output == Get(context, "component_output", None)
        response == IF Truthy(component_output) THEN component_output
                    ELSE Get(context, "llm_response", << >>)
        kb == Get(context, "knowledge_base_results", None)
        sources == [i \in 1..Len(kb) |-> SourceLine(kb[i])]
        formatted_response ==
            IF Get(config, "show_sources", TRUE) /\ Truthy(kb)
            THEN response \o <<"\n\n**Sources:**\n">> \o Join(<<"\n">>, sources)
            ELSE response
    IN  [final_response |-> formatted_response,
         format |-> <<Get(config, "format", "markdown")>>,
         component_output |-> formatted_response]

\* _execute_output
ExecuteOutputResult(config, context) ==
    LET llm_response == Get(context, "llm_response", None)
        response == IF Truthy(llm_response) THEN llm_response
                    ELSE Get(context, "component_output", << >>)
        format_type == Get(config, "format", "markdown")
        show_sources == Get(config, "show_sources", TRUE)
        show_execution_time == Get(config, "show_execution_time", FALSE)
        kb == Get(context, "knowledge_base_results", None)
        sources == [i \in 1..Len(kb) |-> SourceLine(kb[i])]
        with_sources ==
            IF show_sources /\ Truthy(kb)
            THEN response \o <<"\n\n**Sources:**\n">> \o Join(<<"\n">>, sources)
            ELSE response
        formatted_response ==
            IF show_execution_time /\ Truthy(Get(context, "execution_time", None))
            THEN with_sources \o <<"\n\n*Execution time: ">>
                 \o context["execution_time"] \o <<"s*">>
            ELSE with_sources
    IN  [final_response |-> formatted_response,
         format |-> <<format_type>>,
         component_output |-> formatted_response]

\* ------------------------------------------------------------------ state
Runs == {"r1", "r2"}

VARIABLES
    workflows,        \* Workflow table: id -> workflow_data [nodes, edges]
    chat_sessions,    \* ChatSession table: the ids of the stored sessions
    chat_messages,    \* ChatMessage table, in insertion order
    pc,               \* per request: where its handler stands
    request,          \* per request: the WorkflowExecutionRequest
    session,          \* per request: id of the session it writes to
    execution_order,  \* per run: the list built by _build_execution_order
    position,         \* per run: index in execution_order of the for loop
    context,          \* per run: the context dict
    execution_log,    \* per run: the execution_log list
    outcome,          \* per run: what execute_workflow returned or raised
    faults            \* per run, history: the provider calls that failed in
                      \* each logged step

engine_vars == <<workflows, chat_sessions, chat_messages, pc, request, session,
                 execution_order, position, context, execution_log, outcome, faults>>

VARIABLES
    search            \* one call of DocumentService.search_documents: its
                      \* arguments, what the providers do, its result and,
                      \* as history, the provider calls it made
    ,
    chunker           \* one run of the chunking loop: its arguments, the
                      \* start pointer, the chunks appended so far and, as
                      \* history, the part of the text each chunk came from
    ,
    ingestion         \* the documents table, the collections of the vector
                      \* index and the ingestion request being handled

service_vars == <<search, chunker, ingestion>>

vars == <<workflows, chat_sessions, chat_messages, pc, request, session,
          execution_order, position, context, execution_log, outcome, faults,
          search, chunker, ingestion>>

\* ----------------------------------------------------------------- inputs
Queries == {<< >>, <<"hi">>}

\* configs a node of each type is given
Configs(type) ==
    IF type = "llm-engine"
    THEN {EmptyDict, [enable_web_search |-> TRUE]}
    ELSE {EmptyDict}

NodeData(types) ==
    UNION {{[type |-> t, data |-> [config |-> c]] : c \in Configs(t)} : t \in types}

\* node lists of at most n nodes with unique ids: the i-th node has id i
NodeLists(types, n) ==
    UNION {{[i \in 1..k |-> [id |-> i, type |-> d[i].type, data |-> d[i].data]] :
               d \in [1..k -> NodeData(types)]} : k \in 0..n}

\* edges may name any id of 1..MaxNodes, also one that is no node of the list
EdgeLists(n) == SeqsUpTo([source : 1..MaxNodes, target : 1..MaxNodes], n)

\* every shape of graph (chains, forks, joins, cycles, self loops, repeated
\* and dangling edges) over nodes whose handlers call no provider
TopologyTypes == {"output", "custom"}

TopologyGraphs == [nodes : NodeLists(TopologyTypes, MaxNodes), edges : EdgeLists(MaxEdges)]

\* every sequence of node types and configs, connected as a chain
ChainEdges(k) == [i \in 1..(k - 1) |-> [source |-> i, target |-> i + 1]]

PipelineGraphs ==
    {[nodes |-> n, edges |-> ChainEdges(Len(n))] : n \in NodeLists(NodeTypes, MaxChain)}

Graphs == TopologyGraphs \cup PipelineGraphs

\* graphs of output nodes only, with longer edge lists
OrderGraphs == [nodes : NodeLists({"output"}, MaxNodes), edges : EdgeLists(MaxOrderEdges)]

\* the graphs of at most n nodes
Small(graphs, n) == {g \in graphs : Len(g.nodes) <= n}

\* ids of the rows stored at the start, and ids a request may name
\* (session id 0 is "no session_id given")
StoredWorkflowIds == {1}
RequestedWorkflowIds == {1, 2}
StoredSessionIds == {1}
RequestedSessionIds == {0, 1, 2}

\* what the vector index does for one document
HitA == [doc |-> "chunk a", metadata |-> [filename |-> "a.pdf", chunk_index |-> 0],
         distance |-> 10]
HitB == [doc |-> "chunk b", metadata |-> [filename |-> "a.pdf", chunk_index |-> 1],
         distance |-> 40]
HitNoName == [doc |-> "chunk c", metadata |-> [chunk_index |-> 2], distance |-> 20]

IndexAnswers ==
    {[kind |-> k, hits |-> << >>] : k \in {"missing", "error", "timeout"}}
    \cup {[kind |-> "hits", hits |-> h] :
             h \in {<< >>, <<HitA>>, <<HitA, HitB>>, <<HitNoName>>}}

DocumentIds == {1}
DocumentIdLists == {<< >>, <<1>>}

\* what generate_content does: a text, an empty text (blocked content) or
\* an exception
GenerationAnswers ==
    {[ok |-> TRUE, text |-> <<"answer">>, error |-> ""],
     [ok |-> TRUE, text |-> << >>, error |-> ""],
     [ok |-> FALSE, text |-> << >>, error |-> "No content generated"]}

WebAnswers ==
    {[kind |-> "nokey", results |-> << >>],
     [kind |-> "error", results |-> << >>],
     [kind |-> "results",
      results |-> <<[title |-> "t", link |-> "l", snippet |-> "s",
                     displayed_link |-> "d"]>>]}

\* ------------------------------------------------------------------- Init
NoRequest == [session_id |-> 0, workflow_id |-> 0, query |-> << >>]
NoOutcome == [kind |-> "none"]
NoSearch == [pc |-> "off"]
NoChunker == [pc |-> "off"]
NoIngestion == [pc |-> "off"]

\* a service of which no call is modelled
SearchIdle == search = NoSearch
ChunkerIdle == chunker = NoChunker
IngestionIdle == ingestion = NoIngestion

\* the arguments of a direct call execute_workflow(workflow_id, query, db)
Calls == [session_id : {0}, workflow_id : RequestedWorkflowIds, query : Queries]

\* the tables and the per-request state before any request is handled;
\* the runs of `active` start at start_pc, the others never run
InitEngine(active, start_pc) ==
    /\ chat_sessions = StoredSessionIds
    /\ chat_messages = << >>
    /\ pc = [r \in Runs |-> IF r \in active THEN start_pc ELSE "off"]
    /\ session = [r \in Runs |-> 0]
    /\ execution_order = [r \in Runs |-> << >>]
    /\ position = [r \in Runs |-> 0]
    /\ context = [r \in Runs |-> EmptyDict]
    /\ execution_log = [r \in Runs |-> << >>]
    /\ outcome = [r \in Runs |-> NoOutcome]
    /\ faults = [r \in Runs |-> << >>]

\* the engine as above, and no call of the services on their own
InitState(active, start_pc) ==
    /\ InitEngine(active, start_pc)
    /\ SearchIdle
    /\ ChunkerIdle
    /\ IngestionIdle

\* no workflow stored and no request
EngineIdle ==
    /\ workflows = [w \in StoredWorkflowIds |-> [nodes |-> << >>, edges |-> << >>]]
    /\ request = [r \in Runs |-> NoRequest]
    /\ InitEngine({}, "off")

\* one call of execute_workflow about to start, on any stored graph
Init ==
    /\ workflows \in [StoredWorkflowIds -> Graphs]
    /\ \E c \in Calls : request = [r \in Runs |-> IF r = "r1" THEN c ELSE NoRequest]
    /\ InitState({"r1"}, "exec")

\* ------------------------------------------------------- execute_workflow
\* an exception leaves execute_workflow
Raise(r, error) ==
    /\ outcome' = [outcome EXCEPT ![r] = [kind |-> "raised", error |-> error]]
    /\ pc' = [pc EXCEPT ![r] = "raised"]

Nodes(r) == workflows[request[r].workflow_id].nodes

\* next((n for n in nodes if n['id'] == node_id), None)
HasNode(nodes, node_id) == \E i \in 1..Len(nodes) : nodes[i].id = node_id

NodeById(nodes, node_id) ==
    nodes[CHOOSE i \in 1..Len(nodes) :
              /\ nodes[i].id = node_id
              /\ \A j \in 1..(i - 1) : nodes[j].id # node_id]

\* the for loop's "if not node: continue": first index from i on whose id
\* names a node
RECURSIVE SkipAbsent(_, _, _)
SkipAbsent(order, nodes, i) ==
    IF i > Len(order) \/ HasNode(nodes, order[i]) THEN i
    ELSE SkipAbsent(order, nodes, i + 1)

\* execute_workflow up to the for loop: looks the workflow up, builds the
\* execution order, seeds the context
ExecuteWorkflow(r) ==
    /\ pc[r] = "exec"
    /\ LET workflow_id == request[r].workflow_id
       IN  IF workflow_id \notin DOMAIN workflows
           THEN /\ Raise(r, <<"Workflow ", ToString(workflow_id), " not found">>)
                /\ UNCHANGED <<execution_order, position, context, execution_log>>
           ELSE LET nodes == workflows[workflow_id].nodes
                    edges == workflows[workflow_id].edges
                    built == BuildExecutionOrder(nodes, edges)
                IN  IF ~built.ok
                    THEN /\ Raise(r, <<"KeyError">>)
                         /\ UNCHANGED <<execution_order, position, context,
                                        execution_log>>
                    ELSE /\ execution_order' = [execution_order EXCEPT ![r] = built.order]
                         /\ position' = [position EXCEPT ![r] =
                                            SkipAbsent(built.order, nodes, 1)]
                         /\ context' = [context EXCEPT ![r] =
                                           [query |-> request[r].query]]
                         /\ execution_log' = [execution_log EXCEPT ![r] = << >>]
                         /\ pc' = [pc EXCEPT ![r] = "loop"]
                         /\ UNCHANGED outcome
    /\ UNCHANGED service_vars
    /\ UNCHANGED <<workflows, chat_sessions, chat_messages, request, session, faults>>

\* the node the for loop stands at
AtNode(r) == pc[r] = "loop" /\ position[r] <= Len(execution_order[r])

CurrentNode(r) == NodeById(Nodes(r), execution_order[r][position[r]])

\* a loop iteration that puts the newest step at the head of the log
StepPrepend(r, step_result, step_faults) ==
    LET node == NodeById(workflows[request[r].workflow_id].nodes,
                         execution_order[r][position[r]])
    IN  /\ faults' = [faults EXCEPT ![r] = Append(@, step_faults)]
        /\ execution_log' = [execution_log EXCEPT ![r] =
                                <<[component |-> node.type,
                                   node_id |-> node.id,
                                   result |-> step_result]>> \o @]
        /\ context' = [context EXCEPT ![r] = Update(@, step_result)]
        /\ position' = [position EXCEPT ![r] =
                           SkipAbsent(execution_order[r], Nodes(r), @ + 1)]
        /\ UNCHANGED service_vars
        /\ UNCHANGED <<workflows, chat_sessions, chat_messages, pc, request, session,
                       execution_order, outcome>>

\* a loop iteration on a context dict that all runs share: the result is
\* merged into the context of every run
StepShared(r, step_result, step_faults) ==
    LET node == NodeById(workflows[request[r].workflow_id].nodes,
                         execution_order[r][position[r]])
    IN  /\ faults' = [faults EXCEPT ![r] = Append(@, step_faults)]
        /\ execution_log' = [execution_log EXCEPT ![r] =
                                Append(@, [component |-> node.type,
                                           node_id |-> node.id,
                                           result |-> step_result])]
        /\ context' = [q \in Runs |-> Update(context[q], step_result)]
        /\ position' = [position EXCEPT ![r] =
                           SkipAbsent(execution_order[r], Nodes(r), @ + 1)]
        /\ UNCHANGED service_vars
        /\ UNCHANGED <<workflows, chat_sessions, chat_messages, pc, request, session,
                       execution_order, outcome>>

\* a loop iteration that logs the step and moves on without merging its
\* result: the next handler starts on the context the step before it read
StepUnmerged(r, step_result, step_faults) ==
    LET node == NodeById(workflows[request[r].workflow_id].nodes,
                         execution_order[r][position[r]])
    IN  /\ faults' = [faults EXCEPT ![r] = Append(@, step_faults)]
        /\ execution_log' = [execution_log EXCEPT ![r] =
                                Append(@, [component |-> node.type,
                                           node_id |-> node.id,
                                           result |-> step_result])]
        /\ position' = [position EXCEPT ![r] =
                           SkipAbsent(execution_order[r], Nodes(r), @ + 1)]
        /\ UNCHANGED service_vars
        /\ UNCHANGED <<workflows, chat_sessions, chat_messages, pc, request, session,
                       execution_order, outcome, context>>

\* the rest of one loop iteration: log the step, merge its result
Step(r, step_result, step_faults) ==
    LET node == CurrentNode(r)
    IN  /\ faults' = [faults EXCEPT ![r] = Append(@, step_faults)]
        /\ execution_log' = [execution_log EXCEPT ![r] =
                                Append(@, [component |-> node.type,
                                           node_id |-> node.id,
                                           result |-> step_result])]
        /\ context' = [context EXCEPT ![r] = Update(@, step_result)]
        /\ position' = [position EXCEPT ![r] =
                           SkipAbsent(execution_order[r], Nodes(r), @ + 1)]
        /\ UNCHANGED service_vars
        /\ UNCHANGED <<workflows, chat_sessions, chat_messages, pc, request, session,
                       execution_order, outcome>>

\* history: the provider calls of one search_documents call that failed
RetrievalFaults(document_ids, chroma_client, embedding_ok, answers) ==
    IF Len(document_ids) = 0 \/ ~chroma_client THEN {}
    ELSE IF ~embedding_ok THEN {"embedding"}
    ELSE IF \E i \in 1..Len(document_ids) : answers[document_ids[i]].kind # "hits"
         THEN {"vector-search"}
         ELSE {}

\* history: the provider calls of one llm-engine step that failed
GenerationFaults(config, web, answer) ==
    (IF Get(config, "enable_web_search", FALSE) /\ web.kind = "error"
     THEN {"web-search"} ELSE {})
    \cup (IF ~answer.ok \/ ~Truthy(answer.text) THEN {"generation"} ELSE {})

ExecuteUserQuery(r) ==
    /\ AtNode(r)
    /\ CurrentNode(r).type = "user-query"
    /\ Step(r, ExecuteUserQueryResult(context[r]), {})

ExecuteKnowledgeBase(r) ==
    /\ AtNode(r)
    /\ CurrentNode(r).type = "knowledge-base"
    /\ \E document_ids \in DocumentIdLists, chroma_client \in BOOLEAN,
          provider_ok \in BOOLEAN, answers \in [DocumentIds -> IndexAnswers] :
          LET embedding_ok ==
                  GenerateQueryEmbedding(Get(context[r], "query", << >>), provider_ok)
          IN  Step(r, ExecuteKnowledgeBaseResult(CurrentNode(r).data.config, context[r],
                          document_ids, chroma_client, embedding_ok, answers),
                      RetrievalFaults(document_ids, chroma_client, embedding_ok, answers))

ExecuteLLMEngine(r) ==
    /\ AtNode(r)
    /\ CurrentNode(r).type = "llm-engine"
    /\ \E web \in WebAnswers, answer \in GenerationAnswers,
          answer2 \in GenerationAnswers :
          Step(r, ExecuteLLMEngineResult(CurrentNode(r).data.config, context[r],
                      web, answer, answer2),
                  GenerationFaults(CurrentNode(r).data.config, web, answer))

ExecuteOutput(r) ==
    /\ AtNode(r)
    /\ CurrentNode(r).type = "output"
    /\ Step(r, ExecuteOutputResult(CurrentNode(r).data.config, context[r]), {})

\* a dispatch that passes over a node of a type it does not know
ExecuteUnknownSkip(r) ==
    /\ AtNode(r)
    /\ CurrentNode(r).type \notin KnownTypes
    /\ position' = [position EXCEPT ![r] =
                       SkipAbsent(execution_order[r], Nodes(r), @ + 1)]
    /\ UNCHANGED service_vars
    /\ UNCHANGED <<workflows, chat_sessions, chat_messages, pc, request, session,
                   execution_order, context, execution_log, outcome, faults>>

\* the else branch of _execute_component: ValueError, which leaves the loop
\* and execute_workflow
ExecuteUnknown(r) ==
    /\ AtNode(r)
    /\ CurrentNode(r).type \notin KnownTypes
    /\ Raise(r, <<"Unknown component type: ", CurrentNode(r).type>>)
    /\ UNCHANGED service_vars
    /\ UNCHANGED <<workflows, chat_sessions, chat_messages, request, session,
                   execution_order, position, context, execution_log, faults>>

\* the return statement of execute_workflow
ExecuteWorkflowReturn(r) ==
    /\ pc[r] = "loop"
    /\ position[r] > Len(execution_order[r])
    /\ LET result == [response |-> Get(context[r], "final_response",
                                       <<"No response generated">>),
                      execution_log |-> execution_log[r],
                      context |-> context[r]]
       IN  outcome' = [outcome EXCEPT ![r] = [kind |-> "returned", result |-> result]]
    /\ pc' = [pc EXCEPT ![r] = "returned"]
    /\ UNCHANGED service_vars
    /\ UNCHANGED <<workflows, chat_sessions, chat_messages, request, session,
                   execution_order, position, context, execution_log, faults>>

Next ==
    \E r \in Runs :
        \/ ExecuteWorkflow(r)
        \/ ExecuteUserQuery(r)
        \/ ExecuteKnowledgeBase(r)
        \/ ExecuteLLMEngine(r)
        \/ ExecuteOutput(r)
        \/ ExecuteUnknown(r)
        \/ ExecuteWorkflowReturn(r)

Spec == Init /\ [][Next]_vars

\* one call of execute_workflow on any graph of output nodes: the actions
\* of the other node types are never enabled
InitOrder ==
    /\ workflows \in [StoredWorkflowIds -> OrderGraphs]
    /\ request = [r \in Runs |->
                    IF r = "r1"
                    THEN [session_id |-> 0,
                          workflow_id |-> CHOOSE w \in StoredWorkflowIds : TRUE,
                          query |-> <<"hi">>]
                    ELSE NoRequest]
    /\ InitState({"r1"}, "exec")

NextOrder ==
    \E r \in Runs :
        \/ ExecuteWorkflow(r)
        \/ ExecuteOutput(r)
        \/ ExecuteWorkflowReturn(r)

SpecOrder == InitOrder /\ [][NextOrder]_vars

\* ------------------------------------------------------------- chat route
UserMessage(session_id, query) ==
    [session_id |-> session_id, message |-> query, response |-> None,
     message_type |-> "user", execution_data |-> "null"]

\* the assistant message of the try branch
AssistantMessage(session_id, result) ==
    [session_id |-> session_id, message |-> << >>,
     response |-> Get(result, "response", << >>),
     message_type |-> "assistant", execution_data |-> "result"]

\* the error message of the except branch
ErrorMessage(session_id, error) ==
    [session_id |-> session_id, message |-> << >>,
     response |-> <<"Error executing workflow: ">> \o error,
     message_type |-> "assistant", execution_data |-> "error"]

\* id given to a new ChatSession row
NextSessionId == 1 + Cardinality(chat_sessions)

\* POST /execute up to the call of execute_workflow: finds or creates the
\* session, stores the user message, constructs the service.
\* api_key_set: GOOGLE_API_KEY is in the environment (the constructors of
\* LLMService and EmbeddingService raise without it, outside the try).
\* fk_enforced: the database rejects a session row that names no workflow.
ChatExecute(r) ==
    /\ pc[r] = "idle"
    /\ \E session_id \in RequestedSessionIds, workflow_id \in RequestedWorkflowIds,
          query \in Queries, api_key_set \in BOOLEAN, fk_enforced \in BOOLEAN :
        LET req == [session_id |-> session_id, workflow_id |-> workflow_id,
                    query |-> query]
            not_found == session_id # 0 /\ session_id \notin chat_sessions
            integrity_error == /\ session_id = 0
                               /\ workflow_id \notin DOMAIN workflows
                               /\ fk_enforced
            sid == IF session_id # 0 THEN session_id ELSE NextSessionId
        IN  /\ request' = [request EXCEPT ![r] = req]
            /\ IF not_found
               THEN /\ pc' = [pc EXCEPT ![r] = "http_404"]
                    /\ UNCHANGED <<chat_sessions, chat_messages, session>>
               ELSE IF integrity_error
               THEN /\ pc' = [pc EXCEPT ![r] = "http_500"]
                    /\ UNCHANGED <<chat_sessions, chat_messages, session>>
               ELSE /\ chat_sessions' = chat_sessions \cup {sid}
                    /\ session' = [session EXCEPT ![r] = sid]
                    /\ chat_messages' = Append(chat_messages, UserMessage(sid, query))
                    /\ pc' = [pc EXCEPT ![r] = IF api_key_set THEN "exec" ELSE "http_500"]
    /\ UNCHANGED service_vars
    /\ UNCHANGED <<workflows, execution_order, position, context, execution_log,
                   outcome, faults>>

\* a route whose except branch lets the exception go: the request ends as
\* an internal server error and no message is stored
ChatRespondPropagate(r) ==
    /\ pc[r] \in {"returned", "raised"}
    /\ session[r] # 0
    /\ IF pc[r] = "returned"
       THEN /\ chat_messages' =
                   Append(chat_messages, AssistantMessage(session[r], outcome[r].result))
            /\ pc' = [pc EXCEPT ![r] = "responded"]
       ELSE /\ pc' = [pc EXCEPT ![r] = "http_500"]
            /\ UNCHANGED chat_messages
    /\ UNCHANGED service_vars
    /\ UNCHANGED <<workflows, chat_sessions, request, session, execution_order,
                   position, context, execution_log, outcome, faults>>

\* POST /execute after execute_workflow: the try branch stores the
\* assistant message, the except branch the error message
ChatRespond(r) ==
    /\ pc[r] \in {"returned", "raised"}
    /\ session[r] # 0
    /\ chat_messages' =
           Append(chat_messages,
                  IF pc[r] = "returned"
                  THEN AssistantMessage(session[r], outcome[r].result)
                  ELSE ErrorMessage(session[r], outcome[r].error))
    /\ pc' = [pc EXCEPT ![r] = "responded"]
    /\ UNCHANGED service_vars
    /\ UNCHANGED <<workflows, chat_sessions, request, session, execution_order,
                   position, context, execution_log, outcome, faults>>

\* the graphs behind the chat route: the pipelines of few nodes with empty
\* configs, and the graphs of at most one node and one edge (a self loop, a
\* dangling edge)
ChatGraphs ==
    {g \in Small(PipelineGraphs, MaxChatNodes) :
        \A i \in 1..Len(g.nodes) : g.nodes[i].data.config = EmptyDict}
    \cup {g \in TopologyGraphs : Len(g.nodes) <= 1 /\ Len(g.edges) <= 1}

\* requests arriving at the chat route
InitChat ==
    /\ workflows \in [StoredWorkflowIds -> ChatGraphs]
    /\ request = [r \in Runs |-> NoRequest]
    /\ InitState({"r1"}, "idle")

NextChat ==
    \/ Next
    \/ \E r \in Runs : ChatExecute(r) \/ ChatRespond(r)

SpecChat == InitChat /\ [][NextChat]_vars

\* the route and the engine are coroutines of one request: a request that
\* has arrived is handled, every awaited call returns or raises, and the
\* handler runs on to its return or to the exception that leaves it
SpecChatLive == SpecChat /\ WF_vars(NextChat)

\* two calls of execute_workflow side by side on the stored workflow, a
\* pipeline of few nodes; each call has its own query and provider answers
InitPair ==
    /\ workflows \in [StoredWorkflowIds -> Small(PipelineGraphs, MaxPairNodes)]
    /\ request \in [Runs -> {c \in Calls : c.workflow_id \in StoredWorkflowIds}]
    /\ InitState(Runs, "exec")

SpecPair == InitPair /\ [][Next]_vars

\* ------------------------------------------------------- validate route
MaxValidateNodes == 2

\* [t for t in required_types if t not in component_types]
RECURSIVE MissingTypes(_, _, _)
MissingTypes(required_types, i, component_types) ==
    IF i > Len(required_types) THEN << >>
    ELSE (IF required_types[i] \in Range(component_types)
          THEN << >> ELSE <<required_types[i]>>)
         \o MissingTypes(required_types, i + 1, component_types)

\* a validation without the check that the components are connected
ValidateWorkflowNoConnect(nodes, edges) ==
    LET component_types == [i \in 1..Len(nodes) |-> nodes[i].type]
        missing_types == MissingTypes(<<"user-query", "output">>, 1, component_types)
    IN  IF Truthy(missing_types)
        THEN [valid |-> FALSE,
              errors |-> [i \in 1..Len(missing_types) |->
                             <<"Missing required component: ", missing_types[i]>>]]
        ELSE [valid |-> TRUE, errors |-> << >>]

\* the body of validate_workflow once the workflow is found
ValidateWorkflow(nodes, edges) ==
    LET component_types == [i \in 1..Len(nodes) |-> nodes[i].type]
        missing_types == MissingTypes(<<"user-query", "output">>, 1, component_types)
    IN  IF Truthy(missing_types)
        THEN [valid |-> FALSE,
              errors |-> [i \in 1..Len(missing_types) |->
                             <<"Missing required component: ", missing_types[i]>>]]
        ELSE IF Len(nodes) > 1 /\ Len(edges) = 0
        THEN [valid |-> FALSE, errors |-> <<<<"Components are not connected">>>>]
        ELSE [valid |-> TRUE, errors |-> << >>]

\* POST /{workflow_id}/validate: 404 without the workflow, else the verdict
ValidateRequest(r) ==
    /\ pc[r] = "validate"
    /\ LET workflow_id == request[r].workflow_id
       IN  IF workflow_id \notin DOMAIN workflows
           THEN /\ outcome' = [outcome EXCEPT ![r] = [kind |-> "http_404"]]
                /\ pc' = [pc EXCEPT ![r] = "http_404"]
           ELSE /\ outcome' = [outcome EXCEPT ![r] =
                                  [kind |-> "validated",
                                   result |-> ValidateWorkflow(
                                                  workflows[workflow_id].nodes,
                                                  workflows[workflow_id].edges)]]
                /\ pc' = [pc EXCEPT ![r] = "validated"]
    /\ UNCHANGED service_vars
    /\ UNCHANGED <<workflows, chat_sessions, chat_messages, request, session,
                   execution_order, position, context, execution_log, faults>>

\* nodes of every type, connected or not
ValidateGraphs ==
    [nodes : NodeLists(NodeTypes, MaxValidateNodes), edges : EdgeLists(MaxEdges)]

\* one validate request about to be handled, on any stored graph
InitValidate ==
    /\ workflows \in [StoredWorkflowIds -> ValidateGraphs]
    /\ \E w \in RequestedWorkflowIds :
           request = [r \in Runs |->
                         IF r = "r1" THEN [NoRequest EXCEPT !.workflow_id = w]
                         ELSE NoRequest]
    /\ InitState({"r1"}, "validate")

NextValidate == \E r \in Runs : ValidateRequest(r)

SpecValidate == InitValidate /\ [][NextValidate]_vars

\* two calls of execute_workflow side by side, each on either of two stored
\* workflows: any pipeline of few nodes, and user-query -> llm-engine
TwoWorkflowIds == {1, 2}

QueryToLLM ==
    [nodes |-> <<[id |-> 1, type |-> "user-query", data |-> [config |-> EmptyDict]],
                 [id |-> 2, type |-> "llm-engine", data |-> [config |-> EmptyDict]]>>,
     edges |-> ChainEdges(2)]

InitIsolation ==
    /\ workflows \in {[w \in TwoWorkflowIds |-> IF w = 1 THEN g ELSE QueryToLLM] :
                          g \in Small(PipelineGraphs, MaxPairNodes)}
    /\ request \in {[r \in Runs |->
                        [session_id |-> 0, workflow_id |-> w[r],
                         query |-> IF r = "r1" THEN <<"hi">> ELSE << >>]] :
                        w \in [Runs -> TwoWorkflowIds]}
    /\ InitState(Runs, "exec")

SpecIsolation == InitIsolation /\ [][Next]_vars

\* one call of execute_workflow on a pipeline of few nodes
MaxSequenceNodes == 2

InitSequence ==
    /\ workflows \in [StoredWorkflowIds -> Small(PipelineGraphs, MaxSequenceNodes)]
    /\ \E c \in Calls : request = [r \in Runs |-> IF r = "r1" THEN c ELSE NoRequest]
    /\ InitState({"r1"}, "exec")

SpecSequence == InitSequence /\ [][Next]_vars

\* one call of execute_workflow on a pipeline of few nodes that ends in an
\* output node, whose config leaves show_execution_time out or sets it
MaxResponseNodes == 2

OutputConfigs == {EmptyDict, [show_execution_time |-> TRUE]}

ResponseGraphs ==
    {[nodes |-> Append(n, [id |-> Len(n) + 1, type |-> "output",
                           data |-> [config |-> c]]),
      edges |-> ChainEdges(Len(n) + 1)] :
        n \in NodeLists(NodeTypes, MaxResponseNodes), c \in OutputConfigs}

InitResponse ==
    /\ workflows \in [StoredWorkflowIds -> ResponseGraphs]
    /\ request = [r \in Runs |->
                    IF r = "r1"
                    THEN [session_id |-> 0,
                          workflow_id |-> CHOOSE w \in StoredWorkflowIds : TRUE,
                          query |-> <<"hi">>]
                    ELSE NoRequest]
    /\ InitState({"r1"}, "exec")

SpecResponse == InitResponse /\ [][Next]_vars

\* ------------------------------------------------ search_documents alone
MaxDocs == 2
MaxLimit == 2

SearchDocIds == 1..MaxDocs

\* lists of linked document ids: a document is linked to a workflow once
DistinctIdLists ==
    {ids \in SeqsUpTo(SearchDocIds, MaxDocs) :
        \A i, j \in 1..Len(ids) : i # j => ids[i] # ids[j]}

HitC == [doc |-> "chunk c", metadata |-> [filename |-> "a.pdf", chunk_index |-> 2],
         distance |-> 30]

\* the chunks a collection holds, nearest to the query first
StoredChunks == {<< >>, <<HitC>>, <<HitA, HitC>>, <<HitC, HitB>>}

\* what the index does for one document when asked for n_results hits:
\* collection.query returns the n_results nearest chunks
SearchAnswers(n_results) ==
    {[kind |-> k, hits |-> << >>] : k \in {"missing", "error", "timeout"}}
    \cup {[kind |-> "hits", hits |-> Take(c, n_results)] : c \in StoredChunks}

\* the knowledge-base component's configuration schema: search_limit from 1
\* up, similarity_threshold between 0.1 and 1.0
Limits == 1..MaxLimit
Thresholds == {50, 70}

\* one call search_documents(query, document_ids, limit, similarity_threshold)
\* about to start
InitSearch ==
    /\ EngineIdle
    /\ ChunkerIdle
    /\ IngestionIdle
    /\ \E query \in Queries, document_ids \in DistinctIdLists, limit \in Limits,
          similarity_threshold \in Thresholds, chroma_client \in BOOLEAN,
          provider_ok \in BOOLEAN :
          \E answers \in [SearchDocIds -> SearchAnswers(limit)] :
              search = [pc |-> "call", query |-> query, document_ids |-> document_ids,
                        limit |-> limit, similarity_threshold |-> similarity_threshold,
                        chroma_client |-> chroma_client, provider_ok |-> provider_ok,
                        answers |-> answers, results |-> << >>, calls |-> << >>]

\* the call runs to its return statement; no exception leaves it
SearchDocumentsCall ==
    /\ search.pc = "call"
    /\ search' =
           [search EXCEPT
               !.pc = "done",
               !.results =
                   SearchDocuments(search.chroma_client,
                       GenerateQueryEmbedding(search.query, search.provider_ok),
                       search.answers, search.document_ids, search.limit,
                       search.similarity_threshold),
               !.calls =
                   SearchCalls(search.query, search.chroma_client, search.provider_ok,
                               search.answers, search.document_ids)]
    /\ UNCHANGED <<engine_vars, chunker, ingestion>>

NextSearch == SearchDocumentsCall

SpecSearch == InitSearch /\ [][NextSearch]_vars

\* ------------------------------------------------------ the chunking loop
\* The statements of document_service.py l.163-188, with the parameters
\* text, chunk_size and overlap of the header at the end of l.162.  A text is
\* the sequence of its characters; positions count from 0 as in Python.
MaxText == 4
MaxChunkSize == 3
MaxOverlap == 3

Whitespace == {" ", "\n"}
Alphabet == {"x", "."} \cup Whitespace

SetMax(S) == CHOOSE m \in S : \A x \in S : x <= m
SetMin(S) == CHOOSE m \in S : \A x \in S : m <= x

\* a slice bound as Python normalises it for a text of length n
Clamp(i, n) ==
    IF i < 0 THEN (IF i + n < 0 THEN 0 ELSE i + n)
    ELSE IF i > n THEN n ELSE i

\* text[a:b]
PySlice(text, a, b) ==
    LET na == Clamp(a, Len(text))
        nb == Clamp(b, Len(text))
    IN  IF na < nb THEN SubSeq(text, na + 1, nb) ELSE << >>

\* chunk.rfind(sub): the highest position where sub occurs, or -1
RFind(chunk, sub) ==
    LET found == {i \in 0..(Len(chunk) - Len(sub)) :
                     SubSeq(chunk, i + 1, i + Len(sub)) = sub}
    IN  IF found = {} THEN -1 ELSE SetMax(found)

\* the positions (from 1) of the characters of chunk that are not whitespace
Inked(chunk) == {i \in 1..Len(chunk) : chunk[i] \notin Whitespace}

\* chunk.strip()
Strip(chunk) ==
    IF Inked(chunk) = {} THEN << >>
    ELSE SubSeq(chunk, SetMin(Inked(chunk)), SetMax(Inked(chunk)))

\* split_point = max(last_period, last_newline), positions within the chunk
SplitPoint(chunk) ==
    LET last_period == RFind(chunk, <<".">>)
        last_newline == RFind(chunk, <<"\n", "\n">>)
    IN  IF last_period >= last_newline THEN last_period ELSE last_newline

\* whether the iteration at `start` cuts the chunk after a sentence end
SplitsAtSentence(text, start, chunk_size) ==
    /\ start + chunk_size < Len(text)
    /\ SplitPoint(PySlice(text, start, start + chunk_size))
           > start + (chunk_size \div 2)

\* the upper slice bound of the chunk the iteration at `start` takes
ChunkEnd(text, start, chunk_size) ==
    IF SplitsAtSentence(text, start, chunk_size)
    THEN SplitPoint(PySlice(text, start, start + chunk_size)) + 1
    ELSE start + chunk_size

\* an iteration that leaves one character between two chunks
NextStartGap(text, start, chunk_size, overlap) ==
    IF start + chunk_size < Len(text)
    THEN ChunkEnd(text, start, chunk_size) + 1
    ELSE Len(text)

\* the value of start after the iteration at `start`
NextStart(text, start, chunk_size, overlap) ==
    IF start + chunk_size < Len(text)
    THEN ChunkEnd(text, start, chunk_size) - overlap
    ELSE Len(text)

\* an append without the test for a blank chunk
AppendChunkAlways(chunks, chunk) == Append(chunks, Strip(chunk))

\* if chunk.strip(): chunks.append(chunk.strip())
AppendChunk(chunks, chunk) ==
    IF Truthy(Strip(chunk)) THEN Append(chunks, Strip(chunk)) ELSE chunks

\* history: the part of the text, as positions from..to-1, that the chunk
\* appended by the iteration at `start` holds
ChunkSpan(text, start, chunk_size) ==
    LET a == Clamp(start, Len(text))
        chunk == PySlice(text, start, ChunkEnd(text, start, chunk_size))
    IN  IF Inked(chunk) = {} THEN [from |-> a, to |-> a]
        ELSE [from |-> a + SetMin(Inked(chunk)) - 1, to |-> a + SetMax(Inked(chunk))]

Texts == SeqsUpTo(Alphabet, MaxText)

\* chunk_size=1000, overlap=200, the arguments of the call in
\* _generate_embeddings
DefaultChunkSize == 1000
DefaultOverlap == 200

\* "A. B. " followed by 2000 times "x"
LongText == <<"A", ".", " ", "B", ".", " ">> \o [i \in 1..2000 |-> "x"]

\* texts with a sentence end in the second half of the first chunk
SentenceTexts ==
    {[text |-> <<"x", "x", "x", ".", "x", "x">>, chunk_size |-> 5, overlap |-> 4],
     [text |-> <<"x", "x", "x", ".", " ", "x", "x", "x">>, chunk_size |-> 5, overlap |-> 1],
     [text |-> <<"x", "x", "x", "\n", "\n", "x", "x">>, chunk_size |-> 5, overlap |-> 1],
     [text |-> <<"x", "x", "x", "x", "x", ".", "x", "x", "x", "x", "x", ".", "x">>,
      chunk_size |-> 9, overlap |-> 7]}

ChunkerInputs ==
    [text : Texts, chunk_size : 1..MaxChunkSize, overlap : 0..MaxOverlap]
    \cup {[text |-> LongText, chunk_size |-> DefaultChunkSize, overlap |-> DefaultOverlap]}
    \cup SentenceTexts

\* chunks = []; start = 0
InitChunk ==
    /\ EngineIdle
    /\ SearchIdle
    /\ IngestionIdle
    /\ \E input \in ChunkerInputs :
           chunker = [pc |-> "loop", text |-> input.text,
                      chunk_size |-> input.chunk_size, overlap |-> input.overlap,
                      start |-> 0, chunks |-> << >>, spans |-> << >>]

\* a run that has appended more chunks than the text has characters never
\* leaves the loop; the model stops following it there
ChunkCap == MaxText + 2

\* one iteration of while start < len(text)
ChunkIteration ==
    /\ chunker.pc = "loop"
    /\ chunker.start < Len(chunker.text)
    /\ Len(chunker.chunks) < ChunkCap
    /\ LET text == chunker.text
           start == chunker.start
           chunk == PySlice(text, start, ChunkEnd(text, start, chunker.chunk_size))
           chunks == AppendChunk(chunker.chunks, chunk)
       IN  chunker' =
               [chunker EXCEPT
                   !.start = NextStart(text, start, chunker.chunk_size, chunker.overlap),
                   !.chunks = chunks,
                   !.spans = IF Len(chunks) > Len(chunker.chunks)
                             THEN Append(@, ChunkSpan(text, start, chunker.chunk_size))
                             ELSE @]
    /\ UNCHANGED <<engine_vars, search, ingestion>>

\* return chunks
ChunkReturn ==
    /\ chunker.pc = "loop"
    /\ chunker.start >= Len(chunker.text)
    /\ chunker' = [chunker EXCEPT !.pc = "returned"]
    /\ UNCHANGED <<engine_vars, search, ingestion>>

NextChunk == ChunkIteration \/ ChunkReturn

SpecChunk == InitChunk /\ [][NextChunk]_vars

\* the loop is not suspended for ever
SpecChunkLive == SpecChunk /\ WF_vars(NextChunk)

\* --------------------------------------------------------------- ingestion
\* The upload and reprocess routes with DocumentService.process_document.
\* Requests are handled one after the other.
MaxIngestDocs == 2

IngestDocIds == 1..MaxIngestDocs

\* what the constructor DocumentService() gives: EmbeddingService() raises
\* without an API key; the Chroma client is None when it cannot be created
ServiceStates == {"no-key", "no-chroma", "ready"}

\* what _extract_text_from_pdf finds: no file, a file PyMuPDF cannot read,
\* or the text of the pages, which may be empty or blank
PdfTexts == {<< >>, <<" ">>, <<"a", ".">>, <<"b">>}
PdfOutcomes ==
    {[kind |-> "missing", text |-> << >>], [kind |-> "unreadable", text |-> << >>]}
    \cup {[kind |-> "text", text |-> t] : t \in PdfTexts}

NoRow == [embedding_status |-> "none", extracted_text |-> None]
NoIngestRequest ==
    [pc |-> "idle", route |-> "none", doc |-> 0, service |-> "none",
     text |-> None, storage |-> "none", response |-> 0]

\* the chunking loop run to its end
RECURSIVE SplitTextIntoChunks(_, _, _, _, _)
SplitTextIntoChunks(text, start, chunk_size, overlap, chunks) ==
    IF start >= Len(text) THEN chunks
    ELSE SplitTextIntoChunks(text, NextStart(text, start, chunk_size, overlap),
             chunk_size, overlap,
             AppendChunk(chunks, PySlice(text, start, ChunkEnd(text, start, chunk_size))))

\* no document uploaded, every collection empty
InitIngest ==
    /\ EngineIdle
    /\ SearchIdle
    /\ ChunkerIdle
    /\ ingestion = [documents |-> [d \in IngestDocIds |-> NoRow],
                    collections |-> [d \in IngestDocIds |-> << >>],
                    request |-> NoIngestRequest]

IngestFrame == UNCHANGED <<engine_vars, search, chunker>>

Rows == ingestion.documents
IngestRequest == ingestion.request
RequestOpen == IngestRequest.pc \in {"idle", "done"}

\* the request that starts: DocumentService() is constructed outside the
\* route's try, so without an API key the route fails with 500
StartedRequest(route, d, service) ==
    [NoIngestRequest EXCEPT
        !.route = route, !.doc = d, !.service = service,
        !.pc = IF service = "no-key" THEN "done" ELSE "process",
        !.response = IF service = "no-key" THEN 500 ELSE 0]

\* the response once process_document has returned or raised: the upload
\* route swallows the exception, the reprocess route answers 500
Respond(route, raised) == IF route = "reprocess" /\ raised THEN 500 ELSE 200

\* POST /upload of a PDF: a new row with status "pending", then
\* process_document
UploadDocument ==
    /\ RequestOpen
    /\ \E d \in IngestDocIds, service \in ServiceStates :
           /\ Rows[d] = NoRow
           /\ \A e \in IngestDocIds : e < d => Rows[e] # NoRow
           /\ ingestion' =
                  [ingestion EXCEPT
                      !.documents[d] = [embedding_status |-> "pending",
                                        extracted_text |-> None],
                      !.request = StartedRequest("upload", d, service)]
    /\ IngestFrame

\* POST /{document_id}/reprocess: 404 without a row, else status "pending",
\* then process_document
ReprocessDocument ==
    /\ RequestOpen
    /\ \E d \in IngestDocIds, service \in ServiceStates :
           ingestion' =
               IF Rows[d] = NoRow
               THEN [ingestion EXCEPT
                        !.request = [NoIngestRequest EXCEPT
                                        !.route = "reprocess", !.doc = d,
                                        !.pc = "done", !.response = 404]]
               ELSE [ingestion EXCEPT
                        !.documents[d].embedding_status = "pending",
                        !.request = StartedRequest("reprocess", d, service)]
    /\ IngestFrame

\* process_document: document.embedding_status = "processing"; commit
ProcessDocumentStart ==
    /\ IngestRequest.pc = "process"
    /\ ingestion' =
           [ingestion EXCEPT
               !.documents[IngestRequest.doc].embedding_status = "processing",
               !.request.pc = "processing"]
    /\ IngestFrame

\* process_document: the text is extracted and saved, or the extraction
\* raises and the except branch sets "failed"
ExtractText ==
    /\ IngestRequest.pc = "processing"
    /\ \E pdf \in PdfOutcomes :
           ingestion' =
               IF pdf.kind = "text"
               THEN [ingestion EXCEPT
                        !.documents[IngestRequest.doc].extracted_text = pdf.text,
                        !.request.text = pdf.text,
                        !.request.pc = "extracted"]
               ELSE [ingestion EXCEPT
                        !.documents[IngestRequest.doc].embedding_status = "failed",
                        !.request.pc = "done",
                        !.request.response = Respond(IngestRequest.route, TRUE)]
    /\ IngestFrame

\* a _generate_embeddings that returns without storing when the text is
\* blank instead of raising
GenerateEmbeddingsBlankSkips(text, service) ==
    IF ~Truthy(Strip(text)) \/ service = "no-chroma" THEN "skipped"
    ELSE "raised"

\* what _generate_embeddings(document, text) does: ValueError on a blank
\* text; a silent return without a Chroma client; otherwise the call
\* self._split_text_into_chunks raises AttributeError, the class having no
\* attribute of that name
GenerateEmbeddings(text, service) ==
    IF ~Truthy(Strip(text)) THEN "blank"
    ELSE IF service = "no-chroma" THEN "skipped"
    ELSE "raised"

\* process_document from the call of _generate_embeddings to its end:
\* "completed" when the call returns, "failed" when it raises
GenerateAndFinish ==
    /\ IngestRequest.pc = "extracted"
    /\ LET storage == GenerateEmbeddings(IngestRequest.text, IngestRequest.service)
           raised == storage \in {"blank", "raised"}
       IN  ingestion' =
               [ingestion EXCEPT
                   !.documents[IngestRequest.doc].embedding_status =
                       IF raised THEN "failed" ELSE "completed",
                   !.request.storage = storage,
                   !.request.pc = "done",
                   !.request.response = Respond(IngestRequest.route, raised)]
    /\ IngestFrame

NextIngest ==
    \/ UploadDocument
    \/ ReprocessDocument
    \/ ProcessDocumentStart
    \/ ExtractText
    \/ GenerateAndFinish

SpecIngest == InitIngest /\ [][NextIngest]_vars

\* ------------------------------------------------------- graph properties
\* the graph a run executes
GraphOf(r) == workflows[request[r].workflow_id]

\* execute_workflow found the workflow and is at or past building the order
Started(r) ==
    /\ pc[r] \in {"loop", "returned", "raised", "responded"}
    /\ request[r].workflow_id \in DOMAIN workflows

EdgeSet(g) == {<<g.edges[i].source, g.edges[i].target>> : i \in 1..Len(g.edges)}

Successors(E, S) == {e[2] : e \in {x \in E : x[1] \in S}}

RECURSIVE Closure(_, _)
Closure(E, S) ==
    LET next == S \cup Successors(E, S)
    IN  IF next = S THEN S ELSE Closure(E, next)

\* the nodes reached from a over one edge or more
Descendants(g, a) == Closure(EdgeSet(g), Successors(EdgeSet(g), {a}))

OnCycle(g, a) == a \in Descendants(g, a)

Acyclic(g) == \A a \in NodeIds(g.nodes) : ~OnCycle(g, a)

\* every edge names nodes of the node list
WellFormed(g) ==
    \A i \in 1..Len(g.edges) :
        g.edges[i].source \in NodeIds(g.nodes) /\ g.edges[i].target \in NodeIds(g.nodes)

LogIds(r) == [i \in 1..Len(execution_log[r]) |-> execution_log[r][i].node_id]

IsPrefix(s, t) == Len(s) <= Len(t) /\ \A i \in 1..Len(s) : s[i] = t[i]

\* ------------------------------------------------------------------ claims

\* C1: for an acyclic graph whose edges name existing nodes, the execution
\* order holds the source of every edge before its target, and the nodes are
\* dispatched in that order (the logged node ids are a prefix of the order).
C1_TopologicalValidity ==
    \A r \in Runs :
        (Started(r) /\ WellFormed(GraphOf(r)) /\ Acyclic(GraphOf(r))) =>
            LET order == execution_order[r]
                edges == GraphOf(r).edges
            IN  /\ \A i \in 1..Len(edges) :
                       /\ IndexOf(order, edges[i].source) > 0
                       /\ IndexOf(order, edges[i].source) < IndexOf(order, edges[i].target)
                /\ IsPrefix(LogIds(r), order)

\* a finished run on an acyclic graph of three nodes and three distinct
\* edges: one node has two predecessors, one of which is behind the other
C1_Witness ==
    \E r \in Runs :
        /\ pc[r] = "returned"
        /\ WellFormed(GraphOf(r)) /\ Acyclic(GraphOf(r))
        /\ Cardinality(EdgeSet(GraphOf(r))) = 3
        /\ Len(execution_log[r]) = 3

\* execute_workflow has returned or raised
Finished(r) == pc[r] \in {"returned", "raised"}

SameCall(r1, r2) ==
    /\ request[r1].workflow_id = request[r2].workflow_id
    /\ request[r1].query = request[r2].query

RECURSIVE LastOutput(_, _)
LastOutput(log, i) ==
    IF i = 0 THEN 0
    ELSE IF log[i].component = "output" THEN i
    ELSE LastOutput(log, i - 1)

FallbackResponse == <<"No response generated">>

\* C3: the response execute_workflow returns is the final_response written
\* by the last output node dispatched in the run; it is the fixed string
\* "No response generated" exactly when no output node was dispatched, which
\* is when the context has no key final_response.
C3_ResultExtraction ==
    \A r \in Runs :
        pc[r] = "returned" =>
            LET log == execution_log[r]
                last == LastOutput(log, Len(log))
            IN  /\ outcome[r].kind = "returned"
                /\ (last = 0) <=> ("final_response" \notin DOMAIN context[r])
                /\ outcome[r].result.response =
                       IF last = 0 THEN FallbackResponse
                       ELSE log[last].result.final_response

\* a returned run in which two output nodes wrote different final responses
C3_Witness ==
    \E r \in Runs :
        /\ pc[r] = "returned"
        /\ \E i, j \in 1..Len(execution_log[r]) :
               /\ i < j
               /\ execution_log[r][i].component = "output"
               /\ execution_log[r][j].component = "output"
               /\ execution_log[r][i].result.final_response
                      # execution_log[r][j].result.final_response
        /\ outcome[r].result.response # FallbackResponse

\* the type of the node with the given id in the graph of run r
TypeOf(r, node_id) == NodeById(Nodes(r), node_id).type

\* positions of the execution order that hold a node of unknown type
UnknownPositions(r) ==
    {i \in 1..Len(execution_order[r]) :
        TypeOf(r, execution_order[r][i]) \notin KnownTypes}

\* C4 as stated: a run on a graph that contains a node of unknown type
\* never returns a result.
C4_AnyUnknownNodeFails ==
    \A r \in Runs :
        (Started(r) /\ \E i \in 1..Len(Nodes(r)) : Nodes(r)[i].type \notin KnownTypes)
            => pc[r] # "returned"

\* C4: when the execution order holds a node of unknown type, the loop
\* never gets past the first such node and the run never returns a result;
\* a run that has raised at that node carries the error
\* "Unknown component type: <type>".
C4_UnknownTypeInOrderFails ==
    \A r \in Runs :
        (Started(r) /\ UnknownPositions(r) # {}) =>
            LET first == CHOOSE i \in UnknownPositions(r) :
                             \A j \in UnknownPositions(r) : i <= j
            IN  /\ pc[r] # "returned"
                /\ outcome[r].kind # "returned"
                /\ position[r] <= first
                /\ Len(execution_log[r]) < first
                /\ pc[r] = "raised" =>
                       /\ position[r] = first
                       /\ outcome[r].error =
                              <<"Unknown component type: ",
                                TypeOf(r, execution_order[r][first])>>

\* a run that dispatched a node and then raised at a node of unknown type
C4_Witness ==
    \E r \in Runs :
        /\ pc[r] = "raised"
        /\ outcome[r].error[1] = "Unknown component type: "
        /\ Len(execution_log[r]) > 0

ErrorPrefixes == {"Error searching documents: ", "Error: ", "Error generating response: "}

\* the step result holds one of the handlers' error strings
CarriesErrorString(result) ==
    \E k \in {"component_output", "llm_response"} \cap DOMAIN result :
        Len(result[k]) > 0 /\ result[k][1] \in ErrorPrefixes

\* C5: every step of a knowledge-base or llm-engine node during which an
\* embedding, vector-search, generation or web-search call failed is logged
\* (the handler did not raise) and its result carries a human-readable
\* error string.
C5_ProviderErrorsCarryErrorString ==
    \A r \in Runs :
        /\ Len(faults[r]) = Len(execution_log[r])
        /\ \A i \in 1..Len(execution_log[r]) :
               faults[r][i] # {} => CarriesErrorString(execution_log[r][i].result)

\* the messages stored for one session, in insertion order
SessionMessages(session_id) ==
    SelectSeq(chat_messages, LAMBDA m : m.session_id = session_id)

\* what the route has stored for request r up to now
C6_Stored(r) ==
    LET msgs == SessionMessages(session[r])
    IN  /\ (pc[r] \in {"exec", "loop", "returned", "raised", "responded"}
            /\ session[r] # 0) =>
               /\ Len(msgs) >= 1
               /\ msgs[1].message_type = "user"
               /\ msgs[1].message = request[r].query
        /\ (pc[r] \in {"exec", "loop", "returned", "raised"} /\ session[r] # 0) =>
               Len(msgs) = 1
        /\ pc[r] = "responded" =>
               /\ Len(msgs) = 2
               /\ msgs[2].message_type = "assistant"
               /\ outcome[r].kind \in {"returned", "raised"}
               /\ outcome[r].kind = "returned" =>
                      msgs[2].response = outcome[r].result.response
               /\ outcome[r].kind = "raised" =>
                      msgs[2].response =
                          <<"Error executing workflow: ">> \o outcome[r].error
        /\ pc[r] = "http_500" => outcome[r].kind = "none"

\* the route has stored the user message and execute_workflow has been
\* called and not yet answered
InFlight(r) == pc[r] \in {"exec", "loop", "returned", "raised"} /\ session[r] # 0

CycleNodes(g) == {n \in NodeIds(g.nodes) : OnCycle(g, n)}

\* the nodes no edge points to
Roots(g) == {n \in NodeIds(g.nodes) : \A e \in EdgeSet(g) : e[2] # n}

\* the nodes that a path from a root reaches without touching a cycle
ReachedOutsideCycles(g) ==
    Closure({e \in EdgeSet(g) : e[1] \notin CycleNodes(g) /\ e[2] \notin CycleNodes(g)},
            Roots(g) \ CycleNodes(g))

\* the nodes the claim names as excluded: on a cycle, or reached through a
\* cycle and by no path that avoids the cycles
ExcludedAsStated(g) ==
    CycleNodes(g) \cup (NodeIds(g.nodes) \ ReachedOutsideCycles(g))

\* the nodes with a node on a cycle among their ancestors, and the nodes on
\* a cycle themselves
Stalled(g) ==
    {n \in NodeIds(g.nodes) : \E c \in CycleNodes(g) : n \in Descendants(g, c)}

\* the graph is a cycle of two nodes and nothing else
TwoNodeCycle(g) == Len(g.nodes) = 2 /\ EdgeSet(g) = {<<1, 2>>, <<2, 1>>}

\* what a run on graph g does when the nodes of `excluded` are the ones
\* left out: it raises nothing, the order holds exactly the other nodes,
\* and a returned run has one log entry for each node of the order
StallPolicy(r, excluded) ==
    LET g == GraphOf(r)
    IN  /\ pc[r] # "raised"
        /\ Range(execution_order[r]) = NodeIds(g.nodes) \ excluded
        /\ Range(LogIds(r)) \cap excluded = {}
        /\ pc[r] = "returned" => LogIds(r) = execution_order[r]
        /\ TwoNodeCycle(g) =>
               /\ execution_order[r] = << >>
               /\ pc[r] = "returned" =>
                      outcome[r].result.response = FallbackResponse

AllTypesKnown(g) == \A i \in 1..Len(g.nodes) : g.nodes[i].type \in KnownTypes

\* C7 as stated: on a graph with a cycle the nodes left out are the nodes on
\* a cycle and the nodes reachable only through a cycle; every other node
\* is dispatched.
C7_StallPolicyAsStated ==
    \A r \in Runs :
        (Started(r) /\ WellFormed(GraphOf(r)) /\ AllTypesKnown(GraphOf(r))
         /\ ~Acyclic(GraphOf(r)))
            => StallPolicy(r, ExcludedAsStated(GraphOf(r)))

\* C7: on a graph with a cycle whose edges name existing nodes and whose
\* nodes have known types, execute_workflow raises nothing; the nodes on a
\* cycle and every node that has a node on a cycle among its ancestors are
\* left out of the order, never dispatched and never logged; every other
\* node is dispatched.  On a graph that is only a 2-node cycle the order is
\* empty and the response is the fallback string.
C7_StallPolicy ==
    \A r \in Runs :
        (Started(r) /\ WellFormed(GraphOf(r)) /\ AllTypesKnown(GraphOf(r))
         /\ ~Acyclic(GraphOf(r)))
            => StallPolicy(r, Stalled(GraphOf(r)))

\* a returned run that dispatched a root and left out a successor of that
\* root which is on no cycle but behind one
C7_Witness ==
    \E r \in Runs :
        /\ pc[r] = "returned"
        /\ WellFormed(GraphOf(r))
        /\ \E a \in Range(LogIds(r)), n \in Stalled(GraphOf(r)) :
               /\ <<a, n>> \in EdgeSet(GraphOf(r))
               /\ ~OnCycle(GraphOf(r), n)
               /\ n \notin Range(LogIds(r))

\* C8: the set of context keys only grows from one step to the next; the
\* seeded key query and every key written by a logged step are in the
\* context every later handler sees, and the returned context is that
\* context.
C8_ContextMonotone ==
    /\ [](\A r \in Runs :
            /\ pc[r] \in {"loop", "returned"} =>
                   /\ "query" \in DOMAIN context[r]
                   /\ \A i \in 1..Len(execution_log[r]) :
                          DOMAIN execution_log[r][i].result \subseteq DOMAIN context[r]
            /\ pc[r] = "returned" => outcome[r].result.context = context[r])
    /\ [][\A r \in Runs : DOMAIN context[r] \subseteq DOMAIN context'[r]]_vars

\* a returned run in which a later step overwrote a key an earlier step
\* had written, and the keys of both steps are in the returned context
C8_Witness ==
    \E r \in Runs :
        /\ pc[r] = "returned"
        /\ \E i, j \in 1..Len(execution_log[r]) :
               /\ i < j
               /\ DOMAIN execution_log[r][i].result # DOMAIN execution_log[r][j].result
               /\ execution_log[r][i].result.component_output
                      # execution_log[r][j].result.component_output
               /\ outcome[r].result.context.component_output
                      = execution_log[r][j].result.component_output
               /\ DOMAIN execution_log[r][i].result
                      \subseteq DOMAIN outcome[r].result.context

\* C9: the log holds one entry per dispatched node, entry i naming the i-th
\* node of the execution order and its type; a returned run has logged the
\* whole order; a step only appends one entry and leaves the entries before
\* it as they were.
C9_ExecutionLog ==
    /\ [](\A r \in Runs :
            pc[r] \in {"loop", "returned"} =>
                /\ IsPrefix(LogIds(r), execution_order[r])
                /\ Len(execution_log[r]) = position[r] - 1
                /\ \A i \in 1..Len(execution_log[r]) :
                       execution_log[r][i].component = TypeOf(r, execution_order[r][i])
                /\ pc[r] = "returned" =>
                       /\ Len(execution_log[r]) = Len(execution_order[r])
                       /\ outcome[r].result.execution_log = execution_log[r])
    /\ [][\A r \in Runs :
            /\ IsPrefix(execution_log[r], execution_log'[r])
            /\ Len(execution_log'[r]) <= Len(execution_log[r]) + 1]_vars

\* a returned run with three log entries written by nodes of three types
C9_Witness ==
    \E r \in Runs :
        /\ pc[r] = "returned"
        /\ Len(execution_log[r]) = 3
        /\ Cardinality({execution_log[r][i].component : i \in 1..3}) = 3

\* the graph user-query -> output
QueryToOutput(g) ==
    /\ Len(g.nodes) = 2
    /\ g.nodes[1].type = "user-query"
    /\ g.nodes[2].type = "output"
    /\ g.edges = <<[source |-> g.nodes[1].id, target |-> g.nodes[2].id]>>

\* C10: a run on the graph user-query -> output raises nothing and, once
\* returned, has the query as its response; its log has exactly the two
\* entries user-query, output; the user-query step wrote the query as
\* user_query and component_output and the output step wrote it as
\* final_response.
C10_QueryPassThrough ==
    \A r \in Runs :
        (Started(r) /\ QueryToOutput(GraphOf(r))) =>
            /\ pc[r] # "raised"
            /\ pc[r] = "returned" =>
                   LET log == execution_log[r]
                       q == request[r].query
                   IN  /\ outcome[r].result.response = q
                       /\ Len(log) = 2
                       /\ log[1].component = "user-query"
                       /\ DOMAIN log[1].result = {"user_query", "component_output"}
                       /\ log[1].result.user_query = q
                       /\ log[1].result.component_output = q
                       /\ log[2].component = "output"
                       /\ log[2].result.final_response = q

\* a returned run on user-query -> output with the query "hi"
C10_Witness ==
    \E r \in Runs :
        /\ pc[r] = "returned"
        /\ QueryToOutput(GraphOf(r))
        /\ request[r].query = <<"hi">>
        /\ outcome[r].result.response = <<"hi">>

\* --------------------------------------------------------- search claims
SearchDone == search.pc = "done"

\* the documents of the list whose query the index answered
SearchedDocs ==
    {d \in Range(search.document_ids) :
        /\ [provider |-> "vector-index", op |-> "query", doc |-> d] \in Range(search.calls)
        /\ search.answers[d].kind = "hits"}

\* the hits of the searched documents, each with the document it came from
AnsweredHits ==
    UNION {{<<d, h>> : h \in Range(search.answers[d].hits)} : d \in SearchedDocs}

\* the hits at or above the threshold
QualifyingHits ==
    {p \in AnsweredHits : 100 - p[2].distance >= search.similarity_threshold}

\* C11: every result a finished search_documents call returns has a
\* similarity at or above the call's similarity_threshold, and the call
\* returns at most `limit` results.
C11_ThresholdFiltering ==
    SearchDone =>
        /\ \A i \in 1..Len(search.results) :
               search.results[i].similarity >= search.similarity_threshold
        /\ Len(search.results) <= search.limit

\* a finished search that dropped a hit below the threshold and cut the
\* hits at or above it down to the limit
C11_Witness ==
    /\ SearchDone
    /\ Len(search.results) = search.limit
    /\ \E p \in AnsweredHits : 100 - p[2].distance < search.similarity_threshold
    /\ Cardinality({p \in AnsweredHits :
                       100 - p[2].distance >= search.similarity_threshold})
           > search.limit

Min(a, b) == IF a <= b THEN a ELSE b

\* the similarities of a result list, in order
Similarities(results) == [i \in 1..Len(results) |-> results[i].similarity]

\* the hit a result was made from
HitOf(result) ==
    CHOOSE p \in AnsweredHits :
        /\ p[1] = result.document_id
        /\ p[2].doc = result.content
        /\ p[2].metadata = result.metadata

\* C12: the list a finished search_documents call returns is sorted by
\* similarity, highest first; it consists of min(limit, number of qualifying
\* hits) distinct hits at or above the threshold from the searched documents,
\* each with similarity 1 - distance, and no hit left out is more similar
\* than a hit returned; the same call on any permutation of document_ids
\* returns the same similarities in the same order.
C12_SortedMerge ==
    SearchDone =>
        LET results == search.results
        IN  /\ \A i, j \in 1..Len(results) :
                   i < j => results[i].similarity >= results[j].similarity
            /\ \A i \in 1..Len(results) :
                   \E p \in QualifyingHits :
                       /\ p[1] = results[i].document_id
                       /\ p[2].doc = results[i].content
                       /\ p[2].metadata = results[i].metadata
                       /\ results[i].similarity = 100 - p[2].distance
            /\ \A i, j \in 1..Len(results) :
                   i # j => HitOf(results[i]) # HitOf(results[j])
            /\ Len(results) = Min(search.limit, Cardinality(QualifyingHits))
            /\ \A p \in QualifyingHits :
                   (\A i \in 1..Len(results) : HitOf(results[i]) # p) =>
                       \A i \in 1..Len(results) :
                           results[i].similarity >= 100 - p[2].distance
            /\ \A ids \in DistinctIdLists :
                   Range(ids) = Range(search.document_ids) =>
                       Similarities(
                           SearchDocuments(search.chroma_client,
                               GenerateQueryEmbedding(search.query, search.provider_ok),
                               search.answers, ids, search.limit,
                               search.similarity_threshold))
                       = Similarities(results)

\* a finished search over two documents whose first result comes from the
\* second document of the list and which left a qualifying hit out
C12_Witness ==
    /\ SearchDone
    /\ Len(search.document_ids) = 2
    /\ Len(search.results) = 2
    /\ search.results[1].document_id = search.document_ids[2]
    /\ search.results[2].document_id = search.document_ids[1]
    /\ search.results[1].similarity > search.results[2].similarity
    /\ Cardinality(QualifyingHits) > 2

\* C13 (as stated): a finished search_documents call with an empty
\* document id list returned the empty list and made no call to the
\* embedding provider or to the vector index.
C13_EmptyListNoProviderCall ==
    (SearchDone /\ search.document_ids = << >>) =>
        /\ search.results = << >>
        /\ search.calls = << >>

\* the documents of the list whose collection is missing, whose query
\* raises or whose query times out
FailingDocs ==
    {d \in Range(search.document_ids) :
        search.answers[d].kind \in {"missing", "error", "timeout"}}

\* the list without the failing documents, in the same order
WithoutFailingDocs ==
    LET Answered(d) == d \notin FailingDocs
    IN  SelectSeq(search.document_ids, Answered)

\* C14: a finished search_documents call returns no result of a document
\* whose collection is missing, whose query raised or whose query timed out,
\* and returns exactly what the same call returns on the list without those
\* documents.
C14_FailingDocumentSkipped ==
    SearchDone =>
        /\ \A i \in 1..Len(search.results) :
               search.results[i].document_id \notin FailingDocs
        /\ search.results =
               SearchDocuments(search.chroma_client,
                   GenerateQueryEmbedding(search.query, search.provider_ok),
                   search.answers, WithoutFailingDocs, search.limit,
                   search.similarity_threshold)

\* a finished search whose first document failed and whose second document
\* contributed a result
C14_Witness ==
    /\ SearchDone
    /\ Len(search.document_ids) = 2
    /\ search.document_ids[1] \in FailingDocs
    /\ search.answers[search.document_ids[1]].kind = "timeout"
    /\ Len(search.results) > 0
    /\ search.results[1].document_id = search.document_ids[2]

\* --------------------------------------------------------- chunker claims
ChunkerReturned == chunker.pc = "returned"

\* C16: no chunk the chunking loop has appended, and so none it returns, is
\* empty or made of whitespace only, whatever the text, chunk_size and
\* overlap.
C16_ChunkNonEmpty ==
    chunker.pc \in {"loop", "returned"} =>
        \A k \in 1..Len(chunker.chunks) :
            \E i \in 1..Len(chunker.chunks[k]) :
                chunker.chunks[k][i] \notin Whitespace

\* a returned run over a text with a whitespace-only stretch as long as a
\* chunk, which returned chunks for the rest of the text
C16_Witness ==
    /\ ChunkerReturned
    /\ chunker.chunk_size = 2
    /\ chunker.overlap = 0
    /\ chunker.text = <<"x", "x", " ", " ">>
    /\ chunker.chunks = <<<<"x", "x">>>>

\* a text without its whitespace
Ink(text) ==
    LET IsInk(c) == c \notin Whitespace
    IN  SelectSeq(text, IsInk)

\* the non-overlap regions of the chunks from the k-th on, concatenated:
\* each chunk without the characters at positions before `upto`, which the
\* chunks before it hold already
RECURSIVE NonOverlapRegions(_, _, _, _)
NonOverlapRegions(chunks, spans, k, upto) ==
    IF k > Len(chunks) THEN << >>
    ELSE LET skip == IF upto > spans[k].from THEN upto - spans[k].from ELSE 0
             region == IF skip >= Len(chunks[k]) THEN << >>
                       ELSE SubSeq(chunks[k], skip + 1, Len(chunks[k]))
         IN  region \o NonOverlapRegions(chunks, spans, k + 1,
                           IF spans[k].to > upto THEN spans[k].to ELSE upto)

\* the character at position i (from 1) of the text belongs to some chunk
InSomeChunk(i) ==
    \E k \in 1..Len(chunker.spans) :
        chunker.spans[k].from < i /\ i <= chunker.spans[k].to

\* a returned run over a text at least chunk_size long
ReturnedOnLongEnoughText ==
    /\ ChunkerReturned
    /\ Len(chunker.text) >= chunker.chunk_size

\* C17 (as stated): for a text at least chunk_size long, the non-overlap
\* regions of the returned chunks, concatenated in order, are the text, and
\* every character of the text belongs to some chunk.
C17_EveryCharacterCovered ==
    ReturnedOnLongEnoughText =>
        /\ NonOverlapRegions(chunker.chunks, chunker.spans, 1, 0) = chunker.text
        /\ \A i \in 1..Len(chunker.text) : InSomeChunk(i)

\* C17 (amended): for a text at least chunk_size long, every returned chunk
\* is the stretch of the text at its position; the non-overlap regions of
\* the returned chunks, concatenated in order, are the text up to
\* whitespace; and every character of the text that is not whitespace
\* belongs to some chunk.
C17_CoverageUpToWhitespace ==
    ReturnedOnLongEnoughText =>
        /\ Len(chunker.spans) = Len(chunker.chunks)
        /\ \A k \in 1..Len(chunker.chunks) :
               chunker.chunks[k] =
                   SubSeq(chunker.text, chunker.spans[k].from + 1, chunker.spans[k].to)
        /\ Ink(NonOverlapRegions(chunker.chunks, chunker.spans, 1, 0))
               = Ink(chunker.text)
        /\ \A i \in Inked(chunker.text) : InSomeChunk(i)

\* a returned run with two chunks over a text whose whitespace between
\* them belongs to no chunk
C17_Witness ==
    /\ ReturnedOnLongEnoughText
    /\ Len(chunker.chunks) = 2
    /\ chunker.overlap = 0
    /\ \E i \in 1..Len(chunker.text) :
           /\ chunker.text[i] \in Whitespace
           /\ ~InSomeChunk(i)
           /\ InSomeChunk(i - 1)
           /\ InSomeChunk(i + 1)

\* C18 (as stated): every iteration of the chunking loop leaves the start
\* pointer strictly larger than it found it, whatever the text, the
\* chunk_size >= 1 and the overlap >= 0, and the loop returns.
C18_AlwaysAdvances ==
    /\ [][(chunker.pc = "loop" /\ chunker'.pc = "loop") =>
              chunker'.start > chunker.start]_vars
    /\ <>(chunker.pc = "returned")

\* C19 (as stated): with 0 <= overlap < chunk_size the returned chunks
\* are in text order, each at most chunk_size long and starting at or after
\* the start of the chunk before it, and two consecutive chunks share at
\* most `overlap` characters of the text; the text "A. B. " followed by 2000
\* "x", with chunk_size 1000 and overlap 200, gives at least two chunks, the
\* second starting inside the first.
C19_OrderedBoundedOverlap ==
    (ChunkerReturned /\ chunker.overlap < chunker.chunk_size) =>
        /\ \A k \in 1..Len(chunker.chunks) :
               /\ Len(chunker.chunks[k]) <= chunker.chunk_size
               /\ chunker.chunks[k] =
                      SubSeq(chunker.text, chunker.spans[k].from + 1, chunker.spans[k].to)
        /\ \A k \in 1..(Len(chunker.chunks) - 1) :
               /\ chunker.spans[k + 1].from >= chunker.spans[k].from
               /\ chunker.spans[k].to - chunker.spans[k + 1].from <= chunker.overlap
        /\ (/\ chunker.text = LongText
            /\ chunker.chunk_size = DefaultChunkSize
            /\ chunker.overlap = DefaultOverlap) =>
               /\ Len(chunker.chunks) >= 2
               /\ chunker.spans[2].from > chunker.spans[1].from
               /\ chunker.spans[2].from < chunker.spans[1].to

\* -------------------------------------------------------- ingestion claims
\* the entries _generate_embeddings is to store for a text: one per chunk,
\* with the chunk's index
ChunkEntries(text) ==
    LET chunks == SplitTextIntoChunks(text, 0, DefaultChunkSize, DefaultOverlap, << >>)
    IN  [i \in 1..Len(chunks) |-> [chunk_index |-> i - 1, document |-> chunks[i]]]

\* a finished request whose extraction gave a text that is not blank
IngestedText ==
    /\ IngestRequest.pc = "done"
    /\ Truthy(Strip(IngestRequest.text))

\* C15 (as stated): after a document that was uploaded is ingested again by
\* the reprocess route, its collection holds exactly the chunks of the text
\* of that latest ingestion.
C15_ReingestRewritesIndex ==
    (IngestedText /\ IngestRequest.route = "reprocess") =>
        ingestion.collections[IngestRequest.doc] = ChunkEntries(IngestRequest.text)

\* C20 (as stated): when storing the embeddings fails after the text was
\* extracted, the finished process_document has kept the extracted text and
\* left embedding_status at "processing".
C20_PartialIngestionStatus ==
    (IngestedText /\ IngestRequest.storage \in {"skipped", "raised"}) =>
        /\ Rows[IngestRequest.doc].extracted_text = IngestRequest.text
        /\ Rows[IngestRequest.doc].embedding_status = "processing"

\* ------------------------------------------------------- isolation claims
\* the step results the handler of a node can return on a context, over
\* everything the providers can answer
PossibleStepResults(node, ctx) ==
    IF node.type = "user-query" THEN {ExecuteUserQueryResult(ctx)}
    ELSE IF node.type = "knowledge-base"
    THEN {ExecuteKnowledgeBaseResult(node.data.config, ctx, document_ids, chroma_client,
              GenerateQueryEmbedding(Get(ctx, "query", << >>), provider_ok), answers) :
              document_ids \in DocumentIdLists, chroma_client \in BOOLEAN,
              provider_ok \in BOOLEAN, answers \in [DocumentIds -> IndexAnswers]}
    ELSE IF node.type = "llm-engine"
    THEN {ExecuteLLMEngineResult(node.data.config, ctx, web, answer, answer2) :
              web \in WebAnswers, answer \in GenerationAnswers,
              answer2 \in GenerationAnswers}
    ELSE IF node.type = "output" THEN {ExecuteOutputResult(node.data.config, ctx)}
    ELSE {}

\* what a run holds
RunState(r) ==
    <<pc[r], execution_order[r], position[r], context[r], execution_log[r], outcome[r]>>

\* the keys the steps logged by a run have written
LoggedKeys(r) ==
    UNION {DOMAIN execution_log[r][i].result : i \in 1..Len(execution_log[r])}

\* run r dispatches one node in this step
Dispatches(r) == Len(execution_log'[r]) = Len(execution_log[r]) + 1

\* C21: with two runs interleaved, on the same workflow or on different
\* ones, a run's context holds only the query and the keys its own logged
\* steps wrote, and its log only nodes of its own execution order; a step
\* of one run leaves everything the other run holds as it was; every step
\* result a run logs is one its handler returns on the run's own context,
\* and is merged into that context alone; the run returns its own context
\* and log.  So each run proceeds as it would alone on the same answers.
C21_RunIsolation ==
    /\ [](\A r \in Runs :
            /\ pc[r] \in {"loop", "returned"} =>
                   /\ DOMAIN context[r] = {"query"} \cup LoggedKeys(r)
                   /\ context[r].query = request[r].query \/ "query" \in LoggedKeys(r)
                   /\ IsPrefix(LogIds(r), execution_order[r])
                   /\ execution_order[r] =
                          BuildExecutionOrder(GraphOf(r).nodes, GraphOf(r).edges).order
            /\ pc[r] = "returned" =>
                   /\ outcome[r].result.context = context[r]
                   /\ outcome[r].result.execution_log = execution_log[r])
    /\ [][\A r \in Runs :
            /\ (\E q \in Runs \ {r} : RunState(q)' # RunState(q)) =>
                   RunState(r)' = RunState(r)
            /\ Dispatches(r) =>
                   LET step_result == execution_log'[r][Len(execution_log'[r])].result
                   IN  /\ step_result \in PossibleStepResults(CurrentNode(r), context[r])
                       /\ context'[r] = Update(context[r], step_result)]_vars

\* both runs have returned, on different workflows: one holds the keys of an
\* output node, the other those of an llm-engine node, neither the other's
C21_Witness ==
    /\ \A r \in Runs : pc[r] = "returned"
    /\ request["r1"].workflow_id # request["r2"].workflow_id
    /\ "llm_response" \in DOMAIN context["r2"]
    /\ "llm_response" \notin DOMAIN context["r1"]
    /\ "final_response" \in DOMAIN context["r1"]
    /\ "final_response" \notin DOMAIN context["r2"]

\* ------------------------------------------------------ validation claims
HasType(g, type) == \E i \in 1..Len(g.nodes) : g.nodes[i].type = type

\* C22: validate_workflow answers valid = true with no errors exactly when
\* the stored nodes include a user-query node and an output node and the
\* graph is not one of several nodes without any edge; otherwise it answers
\* valid = false with at least one error.  The workflow user-query -> output
\* with its one edge is valid.
C22_ValidateWorkflow ==
    \A r \in Runs :
        pc[r] = "validated" =>
            LET g == GraphOf(r)
                verdict == outcome[r].result
                well == /\ HasType(g, "user-query")
                        /\ HasType(g, "output")
                        /\ ~(Len(g.nodes) > 1 /\ Len(g.edges) = 0)
            IN  /\ verdict.valid = well
                /\ verdict.valid => verdict.errors = << >>
                /\ ~verdict.valid => Len(verdict.errors) > 0
                /\ QueryToOutput(g) => verdict.valid

\* a validated workflow with a user-query node and an output node and no
\* edge, found invalid
C22_Witness ==
    \E r \in Runs :
        /\ pc[r] = "validated"
        /\ HasType(GraphOf(r), "user-query")
        /\ HasType(GraphOf(r), "output")
        /\ GraphOf(r).edges = << >>
        /\ ~outcome[r].result.valid
        /\ outcome[r].result.errors = <<<<"Components are not connected">>>>

\* ------------------------------------------------- dispatch claims, again
\* the edges of the graph between nodes of the node list
RemainingEdges(g) ==
    {e \in EdgeSet(g) : e[1] \in NodeIds(g.nodes) /\ e[2] \in NodeIds(g.nodes)}

\* C23 (as stated): on a graph with an edge that names an id which is no
\* node, and nodes of known types only, execute_workflow does not raise;
\* once it has returned, the nodes it dispatched are in an order in which
\* the source of every remaining edge comes before its target, and with no
\* cycle among the remaining edges every node was dispatched.
C23_DanglingEdgeTolerated ==
    \A r \in Runs :
        (Started(r) /\ ~WellFormed(GraphOf(r)) /\ AllTypesKnown(GraphOf(r))) =>
            /\ pc[r] # "raised"
            /\ pc[r] = "returned" =>
                   /\ \A e \in RemainingEdges(GraphOf(r)) :
                          \A i, j \in 1..Len(execution_log[r]) :
                              (LogIds(r)[i] = e[1] /\ LogIds(r)[j] = e[2]) => i < j
                   /\ Range(LogIds(r)) = NodeIds(GraphOf(r).nodes)

\* index of the last entry of the log whose result wrote the key, 0 if none
LatestWriter(log, key) ==
    SetMax({0} \cup {i \in 1..Len(log) : key \in DOMAIN log[i].result})

\* the context after the entries of the log were merged, in their order,
\* into the seeded context
MergedContext(query, log) ==
    [key \in {"query"} \cup UNION {DOMAIN log[i].result : i \in 1..Len(log)} |->
        IF LatestWriter(log, key) = 0 THEN query
        ELSE log[LatestWriter(log, key)].result[key]]

\* C24: one run dispatches its nodes one after the other. When the for loop
\* stands at the n-th node of the order, n-1 nodes are logged and the context
\* holds, for every key, the value written by the latest logged node that
\* wrote it, or the seeded query when none did; the handler of the n-th node
\* computes its result from that context, and the step logs it under the
\* n-th id of the order and merges it before the loop moves on.
C24_SequentialMerge ==
    /\ [](\A r \in Runs :
            pc[r] \in {"loop", "returned"} =>
                /\ Len(execution_log[r]) = position[r] - 1
                /\ context[r] = MergedContext(request[r].query, execution_log[r]))
    /\ [][\A r \in Runs :
            Dispatches(r) =>
                LET n == Len(execution_log[r]) + 1
                    entry == execution_log'[r][n]
                IN  /\ AtNode(r)
                    /\ position[r] = n
                    /\ entry.node_id = execution_order[r][n]
                    /\ entry.result \in PossibleStepResults(CurrentNode(r),
                           MergedContext(request[r].query, execution_log[r]))
                    /\ context'[r] = MergedContext(request[r].query, execution_log'[r])
                    /\ position'[r] = n + 1]_vars

\* a run of two steps that both wrote component_output, with different
\* values, and neither wrote query: the context holds the second step's
\* component_output and the seeded query
C24_Witness ==
    \E r \in Runs :
        /\ pc[r] = "returned"
        /\ Len(execution_log[r]) = 2
        /\ LatestWriter(execution_log[r], "query") = 0
        /\ LatestWriter(execution_log[r], "component_output") = 2
        /\ execution_log[r][1].result.component_output
               # execution_log[r][2].result.component_output
        /\ context[r].component_output = execution_log[r][2].result.component_output
        /\ context[r].query = <<"hi">>

\* the text holds one of the handlers' error strings
DescribesFailure(text) == \E i \in 1..Len(text) : text[i] \in ErrorPrefixes

\* C25 (as stated): in a returned run in which a provider call failed
\* during a knowledge-base or llm-engine step and an output node was
\* dispatched after that step, the returned response holds the handler's
\* error string, whatever the steps in between did.
C25_FailureVisibleInResponse ==
    \A r \in Runs :
        pc[r] = "returned" =>
            \A i, j \in 1..Len(execution_log[r]) :
                (/\ i < j
                 /\ faults[r][i] # {}
                 /\ execution_log[r][i].component \in {"knowledge-base", "llm-engine"}
                 /\ execution_log[r][j].component = "output") =>
                    DescribesFailure(outcome[r].result.response)

\* the chunk C26 states for the window at `start`: cut after the last '.' or
\* double newline of the window when that lies past the window's midpoint,
\* the whole window otherwise
BoundaryChunk(text, start, chunk_size) ==
    LET window == PySlice(text, start, start + chunk_size)
        boundary == start + SplitPoint(window)
    IN  IF SplitPoint(window) >= 0 /\ boundary > start + (chunk_size \div 2)
        THEN PySlice(text, start, boundary + 1)
        ELSE window

\* C26 (as stated): every iteration on a window [start, start + chunk_size)
\* that is not the last one, with start = 0 or start > 0, takes the chunk
\* that ends at the window's last sentence or paragraph boundary when that
\* boundary lies past the window's midpoint, and the raw window otherwise.
C26_BoundaryPreference ==
    [][(/\ chunker.pc = "loop"
        /\ chunker'.pc = "loop"
        /\ chunker.start >= 0
        /\ chunker.start + chunker.chunk_size < Len(chunker.text)) =>
           chunker'.chunks =
               AppendChunk(chunker.chunks,
                           BoundaryChunk(chunker.text, chunker.start,
                                         chunker.chunk_size))]_vars

\* --------------------------------------------------- output node claims
\* the text holds an execution-time line
HasExecutionTimeLine(text) ==
    \E i \in 1..Len(text) : text[i] = "\n\n*Execution time: "

\* C27 (as stated): the final_response written by an output node whose
\* config sets show_execution_time has an execution-time line.
C27_ExecutionTimeShown ==
    \A r \in Runs :
        \A i \in 1..Len(execution_log[r]) :
            LET node == NodeById(Nodes(r), execution_log[r][i].node_id)
            IN  (/\ node.type = "output"
                 /\ Get(node.data.config, "show_execution_time", FALSE)) =>
                    HasExecutionTimeLine(execution_log[r][i].result.final_response)

\* index of the last llm-engine entry of the log before entry j, 0 if none
LatestLLM(log, j) ==
    SetMax({0} \cup {i \in 1..(j - 1) : log[i].component = "llm-engine"})

\* C28: every output step whose run dispatched an llm-engine node before it,
\* with generation succeeded or failed and whatever was dispatched in
\* between, writes a final_response that begins with the llm_response of
\* the latest such node, which is never empty; an output step with no
\* llm-engine node before it begins its final_response with the
\* component_output of the node dispatched last before it, and with nothing
\* from the context when it is the first node.
C28_OutputReadsLLMResponse ==
    \A r \in Runs :
        \A j \in 1..Len(execution_log[r]) :
            execution_log[r][j].component = "output" =>
                LET log == execution_log[r]
                    final_response == log[j].result.final_response
                    i == LatestLLM(log, j)
                IN  /\ i > 0 =>
                           /\ Truthy(log[i].result.llm_response)
                           /\ IsPrefix(log[i].result.llm_response, final_response)
                    /\ (i = 0 /\ j > 1) =>
                           /\ "llm_response" \notin DOMAIN log[j - 1].result
                           /\ IsPrefix(log[j - 1].result.component_output, final_response)
                    /\ (i = 0 /\ j = 1) =>
                           final_response = << >>

\* a returned run in which generation failed, a knowledge-base node then
\* wrote another component_output, and the output node after both wrote the
\* llm-engine's error string
C28_Witness ==
    \E r \in Runs :
        /\ pc[r] = "returned"
        /\ Len(execution_log[r]) = 3
        /\ execution_log[r][1].component = "llm-engine"
        /\ execution_log[r][2].component = "knowledge-base"
        /\ execution_log[r][3].component = "output"
        /\ execution_log[r][1].result.llm_response[1] = "Error generating response: "
        /\ Truthy(execution_log[r][2].result.component_output)
        /\ execution_log[r][2].result.component_output
               # execution_log[r][1].result.llm_response
        /\ outcome[r].result.response = execution_log[r][1].result.llm_response

\* ------------------------------------------------------- dispatch counts
\* how often x occurs in the sequence
Occurrences(s, x) == Cardinality({i \in 1..Len(s) : s[i] = x})

\* C29: in a run on an acyclic graph whose edges name existing nodes (the
\* same edge may be listed more than once) every node is once in the
\* execution order and, when the run has returned, once in the log; in a
\* run on any graph no node is in the order or in the log more than once,
\* and a dispatch step moves the loop forward to a node that is not in the
\* log and leaves the logged entries as they are.
C29_ExactlyOnceDispatch ==
    /\ [](\A r \in Runs :
            Started(r) =>
                /\ \A n \in NodeIds(GraphOf(r).nodes) :
                       /\ Occurrences(execution_order[r], n) <= 1
                       /\ Occurrences(LogIds(r), n) <= 1
                /\ Range(LogIds(r)) \subseteq NodeIds(GraphOf(r).nodes)
                /\ (WellFormed(GraphOf(r)) /\ Acyclic(GraphOf(r))) =>
                       \A n \in NodeIds(GraphOf(r).nodes) :
                           /\ Occurrences(execution_order[r], n) = 1
                           /\ pc[r] = "returned" => Occurrences(LogIds(r), n) = 1)
    /\ [][\A r \in Runs :
            Dispatches(r) =>
                /\ position'[r] > position[r]
                /\ execution_order[r][position[r]] \notin Range(LogIds(r))
                /\ LogIds(r)' = Append(LogIds(r), execution_order[r][position[r]])]_vars

\* a returned run on an acyclic graph of three nodes in which one edge is
\* listed twice and the node it points to has a second predecessor
C29_Witness ==
    \E r \in Runs :
        LET g == GraphOf(r)
        IN  /\ pc[r] = "returned"
            /\ WellFormed(g) /\ Acyclic(g)
            /\ Len(g.nodes) = 3
            /\ Len(g.edges) = 3
            /\ Cardinality(EdgeSet(g)) = 2
            /\ \E n \in NodeIds(g.nodes) :
                   Cardinality({e \in EdgeSet(g) : e[2] = n}) = 2
            /\ Len(execution_log[r]) = 3

\* ------------------------------------------------- ingestion status claim
\* process_document is running for the request
ProcessDocumentRunning == IngestRequest.pc \in {"process", "processing", "extracted"}

\* process_document was called for the request and has ended
ProcessDocumentEnded ==
    /\ IngestRequest.pc = "done"
    /\ IngestRequest.service \in {"no-chroma", "ready"}

\* the ended call raised: the extraction raised (nothing was handed to
\* _generate_embeddings), the text was empty or blank, or the embedding
\* step raised
ProcessDocumentRaised == IngestRequest.storage \in {"none", "blank", "raised"}

====
